---- MODULE Spec2Model ----
(***************************************************************************)
(* A model of rybesh/deals: the feed merge and atomic feed write of        *)
(* src/deals/main.py (main, copy_remaining_entries, copy_entry); the       *)
(* resumable want-list cache of src/deals/wantlist.py (Cache, _load_cache, *)
(* _save_cache, get) driven by API.fetch_wantlist / paginate_api_results   *)
(* of src/deals/api.py; the rate-limited retrying client (API.call,        *)
(* Feeds.get); the paginators (API.paginate_api_results,                   *)
(* Feeds.paginate_feed); and the resumable scan get_listings of main.py.   *)
(***************************************************************************)
EXTENDS Integers, Sequences, FiniteSets, TLC

(* ------------------------------ bounds --------------------------------- *)
\* listing ids are 1..MaxListingId
MaxListingId == 2
\* at most this many listings are yielded by get_listings in one run
MaxAccepted == 2
\* config.MAX_FEED_ENTRIES (config.py:20) is read from the environment, 50 when
\* unset; the model runs with a small capacity
MAX_FEED_ENTRIES == 2
\* the rendered title / timestamp / content of an entry, as one value
Summaries == {"s1", "s2"}
\* the remote want-list holds the releases 1..n for some n <= MaxRelease
MaxRelease == 5
\* "per_page": 100 (api.py:240), scaled down
PerPage == 2

(* ---------------------------- feed: values ----------------------------- *)
VARIABLES
  feedFile,          \* the file at args.feed
  newFile,           \* the file at args.feed + ".new": absent, partial or complete
  written,           \* how many entries of fg atom_file has serialized in this run
  fpc,               \* position of main(): idle, scan, finally, write, done, killed
  fg_on,             \* fg is not None (a feed path was given)
  feed,              \* the parsed previous feed: [present, entries]
  fg,                \* the entries of the FeedGenerator, in order
  feed_entries,      \* main.py:257
  listing_ids,       \* main.py:258, later passed as deal_ids
  accepted,          \* history: the listings yielded by get_listings in this run
  raised,            \* history: the scan of this run was cut short by an exception
  replaying,         \* this run is fed the stream of the previous run again
  todo               \* the part of that stream still to come

feedVars == <<feedFile, newFile, written, fpc, fg_on, feed, fg, feed_entries,
              listing_ids, accepted, raised, replaying, todo>>

(* -------------------------- want-list: state --------------------------- *)
VARIABLES
  want_count,         \* the remote want-list of config.DISCOGS_USER: releases 1..want_count
  cacheFile,          \* the file CACHE_FILENAME: [exists, complete, page, wants]
  cacheNew,           \* the file CACHE_FILENAME + ".new": absent or open
  wpc,                \* position of wantlist.get
  cache,              \* wantlist.py:57/59: the Cache object, [page, wants]
  clear_cache,        \* argument of get
  refresh_cache,      \* argument of get
  req,                \* api.py:240/254: the page the next request asks for
  exceptions_handled, \* api.py:242
  cur,                \* api.py:290: p["pagination"]["page"] of the page in hand
  pend,               \* api.py:292: the wants of that page not yet processed
  wexc,               \* an exception is propagating through the finally of get
  loaded,             \* history: the cache as get had it before the loop
  processed,          \* history: the releases passed to cache.update in this get
  lastItemPage,       \* history: the page of the last of them, 0 if none
  failPage,           \* history: the page whose items were being processed when
                      \* the loop was aborted, 0 if none
  fetchedFrom,        \* history: the first page this get asked for, 0 if it did not fetch
  called,             \* history: this get made a remote call
  natural,            \* history: the cache file was last saved by a loop that ran to its end
  natAtStart,         \* history: natural, when this get started
  get_result          \* what get returned, <<>> while it has not returned

wantVars == <<want_count, cacheFile, cacheNew, wpc, cache, clear_cache, refresh_cache,
              req, exceptions_handled, cur, pend, wexc, loaded, processed,
              lastItemPage, failPage, fetchedFrom, called, natural, natAtStart, get_result>>

(* ----------------------------- client: state --------------------------- *)
VARIABLES
  cpc,                \* position of the client method in progress
  method,             \* "api" for API.call, "feed" for Feeds.get
  attempts_remaining, \* api.py:201, feeds.py:43
  r,                  \* api.py:203, feeds.py:45: the last response, or None
  num_calls,          \* per decorated method: the calls its limiter counted in its window
  age_reset,          \* per decorated method: ticks since its limiter's window began
  age_req,            \* ticks since the last outbound request left
  requests,           \* history: requests sent by this invocation
  failures,           \* history: attempts of this invocation that did not succeed
  backoffs,           \* history: sleep(10) of api.py:224 / feeds.py:61 in this invocation
  successes,          \* history: 200 responses this invocation returned on
  sawOther,           \* history: this invocation got a non-200 response other than 429
  sentAfterOther,     \* history: and sent a request after it
  pendingLow,         \* history: a response advertised a low quota and no cooldown was slept since
  sentWhilePending,   \* history: a request left while pendingLow
  cooledOn,           \* history: status of the response the last cooldown followed, 0 if none
  lastGap,            \* history: ticks between the last two outbound requests
  lastPair,           \* history: the methods that sent them, <<>> before the second request
  r_text,             \* r.text: the body of r, NoText while r is None
  call_exc,           \* the exception this invocation raised, NoException if none
  last_seen           \* history: the last response the remote gave this invocation

callVars == <<cpc, method, attempts_remaining, r, num_calls, age_reset, age_req,
              requests, failures, backoffs, successes, sawOther, sentAfterOther,
              pendingLow, sentWhilePending, cooledOn, lastGap, lastPair, r_text,
              call_exc, last_seen>>

(* --------------------------- paginators: state ------------------------- *)
VARIABLES
  kind,               \* "api" for API.paginate_api_results, "feed" for Feeds.paginate_feed
  ppc,                \* position of the paginator
  total,              \* the remote holds this many items
  order,              \* "desc": the remote serves them newest first; "asc": oldest first
  first_page,         \* argument (api.py:237, feeds.py:72)
  stop_after_page,    \* argument (api.py:238), 0 for None
  since,              \* argument (feeds.py:73), NoSince for None
  pg_page,            \* the page the next request asks for (api.py:240/254, feeds.py:76/106)
  pg_handled,         \* exceptions_handled (api.py:242, feeds.py:81)
  requested,          \* history: the pages asked for, in order
  outcomes,           \* history: for each request answered, whether it succeeded
  delivered,          \* history: the pages whose content reached the consumer
  yielded,            \* history: the entries paginate_feed yielded, by timestamp
  gaveUp              \* history: the loop ended on its exceptions_handled test

pageVars == <<kind, ppc, total, order, first_page, stop_after_page, since, pg_page,
              pg_handled, requested, outcomes, delivered, yielded, gaveUp>>

(* ------------------------------ scan: state ---------------------------- *)
VARIABLES
  progressFile,       \* the file PROGRESS_FILENAME: [exists, id]
  wantlist,           \* what wantlist.get(api) returns: release ids, ascending
  spc,                \* position of get_listings
  minutes,            \* argument of get_listings, 0 for None
  last_release_id,    \* main.py:176
  wants_left,         \* the wants the for loop of main.py:180 has not reached
  cur_want,               \* the release id of the want in hand, 0 if none
  entries_left,       \* the feed entries of that release not yet processed
  scan_exc,                \* the exception propagating out of get_listings, "none" if none
  loadedId,           \* history: last_release_id as loaded at the start of the run
  scanned,            \* history: the releases fully processed by this run, in order
  skippedIds,         \* history: the releases this run passed over (main.py:181-182)
  yieldedN,           \* history: listings this run yielded
  blockedN,           \* history: entries of blocked sellers this run passed over
  malformed,          \* history: listings this run dropped on a ValueError
  budgetStop          \* history: this run left the loop on the time budget

scanVars == <<progressFile, wantlist, spc, minutes, last_release_id, wants_left, cur_want,
              entries_left, scan_exc, loadedId, scanned, skippedIds, yieldedN, blockedN, malformed,
              budgetStop>>

(* ------------------------------ load: state ---------------------------- *)
VARIABLES
  ld_pc,              \* position of the start-up: which store is read next
  ld_cacheFile,       \* the file CACHE_FILENAME as found: [exists, complete, page, wants]
  ld_progressFile,    \* the file PROGRESS_FILENAME as found: [exists, complete, id]
  ld_id,              \* what load_last_release_id returned
  ld_cache,           \* what _load_cache returned
  ld_exc              \* the exception that ended the start-up, "none" if none

loadVars == <<ld_pc, ld_cacheFile, ld_progressFile, ld_id, ld_cache, ld_exc>>

(* ----------------------------- pricing: state -------------------------- *)
VARIABLES
  pr_pc,              \* "listed": a Listing as built; then "priced" or "raised"
  pr_price,           \* listing.price, in cents
  pr_shipping,        \* listing.shipping_price
  pr_suggestion,      \* release.price_suggestions.get(listing.condition), NoSuggestion for None
  pr_adjusted,        \* what get_adjusted_price returned
  pr_reference,       \* what get_suggested_price returned
  pr_discount         \* what get_discount returned

priceVars == <<pr_pc, pr_price, pr_shipping, pr_suggestion, pr_adjusted, pr_reference,
               pr_discount>>

(* ------------------------- legacy evaluator: state --------------------- *)
VARIABLES
  lg_pc,              \* "fetched": the listing JSON is in hand; then "decided"
  lg_blocked,         \* listing["seller"]["username"] is in BLOCKED_SELLERS
  lg_price_value,     \* listing["price"].get("value"), NoValue for None
  lg_shipping_value,  \* listing["shipping_price"].get("value"), NoValue for None
  lg_condition,       \* the condition the feed was requested for
  lg_year,            \* listing["release"].get("year", 0)
  lg_genres,          \* set(release["genres"])
  lg_rating,          \* get_seller_rating(listing)
  lg_price,           \* what get_total_price returned, NoValue for None
  lg_age,             \* release_age as passed to meets_criteria
  lg_meets            \* what meets_criteria returned

legacyVars == <<lg_pc, lg_blocked, lg_price_value, lg_shipping_value, lg_condition,
                lg_year, lg_genres, lg_rating, lg_price, lg_age, lg_meets>>

(* ----------------------- legacy page loop: state ----------------------- *)
VARIABLES
  lp_pc,              \* "loop": inside while True of get_deals; "done": past the break
  lp_page,            \* deals.py:539: page
  lp_last,            \* the remote feed has entries on the pages 1..lp_last and none after
  lp_remote,          \* "up", or "down": from now on every page request fails
  lp_yielded,         \* history: the pages whose entries were processed
  lp_lost             \* history: the pages whose request failed

legacyPagesVars == <<lp_pc, lp_page, lp_last, lp_remote, lp_yielded, lp_lost>>

vars == <<feedVars, wantVars, callVars, pageVars, scanVars, loadVars, priceVars, legacyVars, legacyPagesVars>>

\* what the actions of main() leave alone
offFeed == <<wantVars, callVars, pageVars, scanVars, loadVars, priceVars, legacyVars, legacyPagesVars>>

\* what the actions of wantlist.get leave alone
offWant == <<feedVars, callVars, pageVars, scanVars, loadVars, priceVars, legacyVars, legacyPagesVars>>

\* what the actions of API.call and Feeds.get leave alone
offCall == <<feedVars, wantVars, pageVars, scanVars, loadVars, priceVars, legacyVars, legacyPagesVars>>

\* what the actions of the paginators leave alone
offPage == <<feedVars, wantVars, callVars, scanVars, loadVars, priceVars, legacyVars, legacyPagesVars>>

\* what the actions of get_listings leave alone
offScan == <<feedVars, wantVars, callVars, pageVars, loadVars, priceVars, legacyVars, legacyPagesVars>>

\* what the reads of the persisted stores leave alone
offLoad == <<feedVars, wantVars, callVars, pageVars, scanVars, priceVars, legacyVars, legacyPagesVars>>

\* what the pricing methods of Listing leave alone
offPrice == <<feedVars, wantVars, callVars, pageVars, scanVars, loadVars, legacyVars, legacyPagesVars>>

\* what the legacy evaluator leaves alone
offLegacy == <<feedVars, wantVars, callVars, pageVars, scanVars, loadVars, priceVars, legacyPagesVars>>

\* what the legacy page loop leaves alone
offLegacyPages == <<feedVars, wantVars, callVars, pageVars, scanVars, loadVars, priceVars, legacyVars>>

\* A Python int used as a set element (listing.id, api.py:108).
PyInt(n) == <<"int", n>>

\* The Python str f"https://www.discogs.com/sell/item/{n}"; never equal to an int.
ItemUrl(n) == <<"https://www.discogs.com/sell/item/", n>>

Listings == [id : 1..MaxListingId, sum : Summaries]

NoFile == [exists |-> FALSE, complete |-> FALSE, entries |-> <<>>]

NoFeed == [present |-> FALSE, entries |-> <<>>]

Range(s) == {s[i] : i \in 1..Len(s)}

Ids(s) == [i \in 1..Len(s) |-> s[i].id]

(* -------------------------- feed: operations --------------------------- *)
\* parse_atom_file on an existing file (main.py:269-270)
parse_atom_file(file) == [present |-> TRUE, entries |-> file.entries]

\* main.py:299-304: the entry made for an accepted listing
new_entry(l) == [id |-> ItemUrl(l.id), sum |-> l.sum]

\* main.py:296-305 (fg is not None): st is [fg, feed_entries, ids], ids being
\* listing_ids; the set is keyed by the int listing.id, the entry by the URL
add_listing(st, l) ==
  IF st.feed_entries < MAX_FEED_ENTRIES /\ PyInt(l.id) \notin st.ids
  THEN [fg |-> Append(st.fg, new_entry(l)),
        feed_entries |-> st.feed_entries + 1,
        ids |-> st.ids \cup {PyInt(l.id)}]
  ELSE st

\* main.py:211-218: id, title, updated and content are copied; every entry main
\* wrote has an updated value, so now() is never substituted
copy_entry(entry) == [id |-> entry.id, sum |-> entry.sum]

RECURSIVE copy_loop(_, _, _)
\* main.py:225-232: the loop over feed.entries from index i on
copy_loop(entries, i, st) ==
  IF i > Len(entries) THEN st
  ELSE IF st.feed_entries < MAX_FEED_ENTRIES
       THEN IF entries[i].id \notin st.ids
            THEN copy_loop(entries, i + 1,
                           [fg |-> Append(st.fg, copy_entry(entries[i])),
                            feed_entries |-> st.feed_entries + 1,
                            ids |-> st.ids \cup {entries[i].id}])
            ELSE copy_loop(entries, i + 1, st)
       ELSE st

RECURSIVE copy_loop_uncapped(_, _, _)
\* the loop of main.py:225-232 without the capacity test of line 226
copy_loop_uncapped(entries, i, st) ==
  IF i > Len(entries) THEN st
  ELSE IF entries[i].id \notin st.ids
       THEN copy_loop_uncapped(entries, i + 1,
                               [fg |-> Append(st.fg, copy_entry(entries[i])),
                                feed_entries |-> st.feed_entries + 1,
                                ids |-> st.ids \cup {entries[i].id}])
       ELSE copy_loop_uncapped(entries, i + 1, st)

\* copy_remaining_entries without the capacity test
copy_remaining_uncapped(f, st) ==
  IF f.present THEN copy_loop_uncapped(f.entries, 1, st) ELSE st

\* main.py:221-232
copy_remaining_entries(f, st) ==
  IF f.present THEN copy_loop(f.entries, 1, st) ELSE st

\* main() without the try/finally of main.py:284/307 (as deals.py:698-723)
after_scan_no_finally(exc) == IF exc THEN "exited" ELSE "finally"

\* main.py:284-307: the finally block runs however the scan ends
after_scan(exc) == "finally"

\* os.rename issued as soon as the ".new" file exists
rename_ready_early(file) == file # "absent"

\* main.py:311-312: os.rename runs only after fg.atom_file returned
rename_ready(file) == file = "complete"

(* ---------------------------- feed: actions ---------------------------- *)
FeedInit ==
  /\ feedFile = NoFile
  /\ newFile = "absent"
  /\ written = 0
  /\ fpc = "idle"
  /\ fg_on = FALSE
  /\ feed = NoFeed
  /\ fg = <<>>
  /\ feed_entries = 0
  /\ listing_ids = {}
  /\ accepted = <<>>
  /\ raised = FALSE
  /\ replaying = FALSE
  /\ todo = <<>>

\* main.py:255-282: a run starts; with args.feed the previous feed is parsed
StartRun(withFeed) ==
  /\ fpc \in {"idle", "done", "killed"}
  /\ fpc' = "scan"
  /\ fg_on' = withFeed
  /\ feed' = IF withFeed /\ feedFile.exists THEN parse_atom_file(feedFile) ELSE NoFeed
  /\ fg' = <<>>
  /\ feed_entries' = 0
  /\ listing_ids' = {}
  /\ accepted' = <<>>
  /\ raised' = FALSE
  /\ replaying' = FALSE
  /\ todo' = <<>>
  /\ written' = 0
  /\ UNCHANGED <<feedFile, newFile>>
  /\ UNCHANGED offFeed

\* the same run again: the same configuration and the same accepted listings
StartReplay ==
  /\ fpc = "done"
  /\ fg_on
  /\ ~replaying
  /\ fpc' = "scan"
  /\ feed' = IF feedFile.exists THEN parse_atom_file(feedFile) ELSE NoFeed
  /\ fg' = <<>>
  /\ feed_entries' = 0
  /\ listing_ids' = {}
  /\ accepted' = <<>>
  /\ raised' = FALSE
  /\ replaying' = TRUE
  /\ todo' = accepted
  /\ written' = 0
  /\ UNCHANGED <<feedFile, newFile, fg_on>>
  /\ UNCHANGED offFeed

\* main.py:286-305: get_listings yields listing l
Accept(l) ==
  /\ fpc = "scan"
  /\ Len(accepted) < MaxAccepted
  /\ replaying => (todo # <<>> /\ l = Head(todo))
  /\ todo' = IF replaying THEN Tail(todo) ELSE todo
  /\ accepted' = Append(accepted, l)
  /\ LET st == [fg |-> fg, feed_entries |-> feed_entries, ids |-> listing_ids]
         nx == IF fg_on THEN add_listing(st, l) ELSE st
     IN /\ fg' = nx.fg
        /\ feed_entries' = nx.feed_entries
        /\ listing_ids' = nx.ids
  /\ UNCHANGED <<feedFile, newFile, written, fpc, fg_on, feed, raised, replaying>>
  /\ UNCHANGED offFeed

\* main.py:286: get_listings is exhausted
ScanEnds ==
  /\ fpc = "scan"
  /\ fpc' = after_scan(FALSE)
  /\ UNCHANGED <<feedFile, newFile, written, fg_on, feed, fg, feed_entries,
                 listing_ids, accepted, raised, replaying, todo>>
  /\ UNCHANGED offFeed

\* main.py:284-305: an exception or KeyboardInterrupt leaves the loop
ScanRaises ==
  /\ fpc = "scan"
  /\ raised' = TRUE
  /\ fpc' = after_scan(TRUE)
  /\ UNCHANGED <<feedFile, newFile, written, fg_on, feed, fg, feed_entries,
                 listing_ids, accepted, replaying, todo>>
  /\ UNCHANGED offFeed

FinallyWritesAnyway ==
  /\ fpc = "finally"
  /\ ~fg_on
  /\ newFile' = "partial"
  /\ written' = 0
  /\ fpc' = "write"
  /\ UNCHANGED <<feedFile, fg_on, feed, fg, feed_entries, listing_ids, accepted, raised,
                 replaying, todo>>
  /\ UNCHANGED offFeed

\* main.py:308: no feed path, nothing is written
FinallyNoFeed ==
  /\ fpc = "finally"
  /\ ~fg_on
  /\ fpc' = "done"
  /\ UNCHANGED <<feedFile, newFile, written, fg_on, feed, fg, feed_entries,
                 listing_ids, accepted, raised, replaying, todo>>
  /\ UNCHANGED offFeed

\* main.py:308-311: copy_remaining_entries, then atom_file opens the ".new" file
FinallyCopy ==
  /\ fpc = "finally"
  /\ fg_on
  /\ LET st == copy_remaining_entries(
                 feed, [fg |-> fg, feed_entries |-> feed_entries, ids |-> listing_ids])
     IN /\ fg' = st.fg
        /\ listing_ids' = st.ids
  /\ newFile' = "partial"
  /\ written' = 0
  /\ fpc' = "write"
  /\ UNCHANGED <<feedFile, fg_on, feed, feed_entries, accepted, raised, replaying, todo>>
  /\ UNCHANGED offFeed

\* main.py:311: atom_file writes the next entry
WriteEntry ==
  /\ fpc = "write"
  /\ newFile = "partial"
  /\ written < Len(fg)
  /\ written' = written + 1
  /\ UNCHANGED <<feedFile, newFile, fpc, fg_on, feed, fg, feed_entries, listing_ids,
                 accepted, raised, replaying, todo>>
  /\ UNCHANGED offFeed

\* main.py:311: atom_file has written everything and returns
WriteDone ==
  /\ fpc = "write"
  /\ newFile = "partial"
  /\ written = Len(fg)
  /\ newFile' = "complete"
  /\ UNCHANGED <<feedFile, written, fpc, fg_on, feed, fg, feed_entries, listing_ids,
                 accepted, raised, replaying, todo>>
  /\ UNCHANGED offFeed

\* main.py:312: os.rename(".new", args.feed)
Rename ==
  /\ fpc = "write"
  /\ rename_ready(newFile)
  /\ feedFile' = [exists |-> TRUE, complete |-> newFile = "complete",
                  entries |-> SubSeq(fg, 1, written)]
  /\ newFile' = "absent"
  /\ fpc' = "done"
  /\ UNCHANGED <<written, fg_on, feed, fg, feed_entries, listing_ids, accepted, raised,
                 replaying, todo>>
  /\ UNCHANGED offFeed

\* the process dies (or atom_file raises) at any step of the finally block
Killed ==
  /\ fpc \in {"finally", "write"}
  /\ fpc' = "killed"
  /\ UNCHANGED <<feedFile, newFile, written, fg_on, feed, fg, feed_entries,
                 listing_ids, accepted, raised, replaying, todo>>
  /\ UNCHANGED offFeed

FeedNext ==
  \/ \E w \in BOOLEAN : StartRun(w)
  \/ StartReplay
  \/ \E l \in Listings : Accept(l)
  \/ ScanEnds
  \/ ScanRaises
  \/ FinallyNoFeed
  \/ FinallyCopy
  \/ WriteEntry
  \/ WriteDone
  \/ Rename
  \/ Killed

(* ------------------------ want-list: operations ------------------------ *)
\* api.py:243: while exceptions_handled <= 5
TOLERATED == 5

\* the "pages" of the remote's pagination object
Pages(n) == IF n = 0 THEN 1 ELSE (n + PerPage - 1) \div PerPage

\* the "wants" of page p of the remote want-list
PageItems(n, p) ==
  LET lo == (p - 1) * PerPage + 1
      hi == IF p * PerPage < n THEN p * PerPage ELSE n
  IN [i \in 1..(IF hi >= lo THEN hi - lo + 1 ELSE 0) |-> lo + i - 1]

\* api.py:247-252: the page carries pagination.urls.next
HasNext(n, p) == p < Pages(n)

NoCacheFile == [exists |-> FALSE, complete |-> FALSE, page |-> 1, wants |-> {}]

\* wantlist.py:18-20
Cache(page, wants) == [page |-> page, wants |-> wants]

\* Cache.update that never moves the cursor
cache_update_keep_page(c, page, want) == Cache(c.page, c.wants \cup {want})

\* wantlist.py:22-26
cache_update(c, page, want) ==
  Cache(IF c.page # page THEN page ELSE c.page, c.wants \cup {want})

\* wantlist.py:40-45, on a file that is absent or unpickles
_load_cache(file) ==
  IF file.exists THEN Cache(file.page, file.wants) ELSE Cache(1, {})

\* wantlist.py:43: the pickle is truncated, CustomUnpickler.load raises
load_raises(file) == file.exists /\ ~file.complete

\* wantlist.py:61
first_page_of(c, refresh) == IF refresh THEN 1 ELSE c.page

needs_fetch_always(c, refresh) == TRUE

\* wantlist.py:62
needs_fetch(c, refresh) == Cardinality(c.wants) = 0 \/ refresh

\* get without the reset of wantlist.py:71
end_of_loop_no_reset(c) == c

\* wantlist.py:70-71: finished iterating wants; reset page to 1
end_of_loop(c) == Cache(1, c.wants)

\* wantlist.py:75: sorted(cache.wants.values(), key=lambda w: w.release.id)
RECURSIVE Sorted(_)
Sorted(S) ==
  IF S = {} THEN <<>>
  ELSE LET lo == CHOOSE x \in S : \A y \in S : x <= y
       IN <<lo>> \o Sorted(S \ {lo})

(* ------------------------- want-list: actions -------------------------- *)
WantStart(n) ==
  /\ want_count = n
  /\ cacheFile = NoCacheFile
  /\ cacheNew = "absent"
  /\ wpc = "idle"
  /\ cache = Cache(1, {})
  /\ clear_cache = FALSE
  /\ refresh_cache = FALSE
  /\ req = 1
  /\ exceptions_handled = 0
  /\ cur = 0
  /\ pend = <<>>
  /\ wexc = FALSE
  /\ loaded = Cache(1, {})
  /\ processed = {}
  /\ lastItemPage = 0
  /\ failPage = 0
  /\ fetchedFrom = 0
  /\ called = FALSE
  /\ natural = FALSE
  /\ natAtStart = FALSE
  /\ get_result = <<>>

WantInit == \E n \in 0..MaxRelease : WantStart(n)

WantOff == WantStart(0)

\* wantlist.py:54-63: get is called; the cache is loaded and the loop entered or skipped
StartGet(clear, refresh) ==
  /\ wpc \in {"idle", "returned", "raised", "killed"}
  /\ ~(~clear /\ load_raises(cacheFile))
  /\ clear_cache' = clear
  /\ refresh_cache' = refresh
  /\ LET c == IF clear THEN Cache(1, {}) ELSE _load_cache(cacheFile)
         fetch == needs_fetch(c, refresh)
     IN /\ cache' = c
        /\ loaded' = c
        /\ req' = first_page_of(c, refresh)
        /\ fetchedFrom' = IF fetch THEN first_page_of(c, refresh) ELSE 0
        /\ wpc' = IF fetch THEN "fetch" ELSE "returned"
        /\ get_result' = IF fetch THEN <<>> ELSE Sorted(c.wants)
  /\ exceptions_handled' = 0
  /\ cur' = 0
  /\ pend' = <<>>
  /\ wexc' = FALSE
  /\ processed' = {}
  /\ lastItemPage' = 0
  /\ failPage' = 0
  /\ called' = FALSE
  /\ natAtStart' = natural
  /\ UNCHANGED <<want_count, cacheFile, cacheNew, natural>>
  /\ UNCHANGED offWant

\* wantlist.py:59, 43: the cache file is truncated and unpickling raises out of get
StartGetUnreadable(refresh) ==
  /\ wpc \in {"idle", "returned", "raised", "killed"}
  /\ load_raises(cacheFile)
  /\ clear_cache' = FALSE
  /\ refresh_cache' = refresh
  /\ loaded' = Cache(1, {})
  /\ wpc' = "raised"
  /\ wexc' = TRUE
  /\ failPage' = 0
  /\ fetchedFrom' = 0
  /\ called' = FALSE
  /\ processed' = {}
  /\ lastItemPage' = 0
  /\ natAtStart' = natural
  /\ UNCHANGED <<want_count, cacheFile, cacheNew, cache, req, exceptions_handled, cur,
                 pend, natural>>
  /\ get_result' = <<>>
  /\ UNCHANGED offWant

\* api.py:245-246: the request for page req succeeds and the page is yielded
PageOk ==
  /\ wpc = "fetch"
  /\ exceptions_handled <= TOLERATED
  /\ req \in 1..Pages(want_count)
  /\ called' = TRUE
  /\ cur' = req
  /\ pend' = PageItems(want_count, req)
  /\ wpc' = "items"
  /\ UNCHANGED <<want_count, cacheFile, cacheNew, cache, clear_cache, refresh_cache, req,
                 exceptions_handled, wexc, loaded, processed, lastItemPage, failPage,
                 fetchedFrom, natural, natAtStart>>
  /\ UNCHANGED get_result
  /\ UNCHANGED offWant

\* api.py:261-263: API.call raised APIException for page req
PageFail ==
  /\ wpc = "fetch"
  /\ exceptions_handled <= TOLERATED
  /\ called' = TRUE
  /\ exceptions_handled' = exceptions_handled + 1
  /\ UNCHANGED <<want_count, cacheFile, cacheNew, wpc, cache, clear_cache, refresh_cache,
                 req, cur, pend, wexc, loaded, processed, lastItemPage, failPage,
                 fetchedFrom, natural, natAtStart>>
  /\ UNCHANGED get_result
  /\ UNCHANGED offWant

\* api.py:296-299, wantlist.py:68: a want of the page is fetched and cached
ItemOk ==
  /\ wpc = "items"
  /\ pend # <<>>
  /\ cache' = cache_update(cache, cur, Head(pend))
  /\ pend' = Tail(pend)
  /\ processed' = processed \cup {Head(pend)}
  /\ lastItemPage' = cur
  /\ UNCHANGED <<want_count, cacheFile, cacheNew, wpc, clear_cache, refresh_cache, req,
                 exceptions_handled, cur, wexc, loaded, failPage, fetchedFrom, called,
                 natural, natAtStart>>
  /\ UNCHANGED get_result
  /\ UNCHANGED offWant

\* api.py:296, wantlist.py:72-73: fetch_release raises APIException, or the process
\* is interrupted, while a want of the page is being processed; the finally
\* clause of get takes over
ItemRaises ==
  /\ wpc = "items"
  /\ pend # <<>>
  /\ wexc' = TRUE
  /\ failPage' = cur
  /\ wpc' = "save"
  /\ UNCHANGED <<want_count, cacheFile, cacheNew, cache, clear_cache, refresh_cache, req,
                 exceptions_handled, cur, pend, loaded, processed, lastItemPage,
                 fetchedFrom, called, natural, natAtStart>>
  /\ UNCHANGED get_result
  /\ UNCHANGED offWant

\* wantlist.py:72-73: KeyboardInterrupt while a page is being requested
Interrupted ==
  /\ wpc = "fetch"
  /\ exceptions_handled <= TOLERATED
  /\ wexc' = TRUE
  /\ wpc' = "save"
  /\ UNCHANGED <<want_count, cacheFile, cacheNew, cache, clear_cache, refresh_cache, req,
                 exceptions_handled, cur, pend, loaded, processed, lastItemPage, failPage,
                 fetchedFrom, called, natural, natAtStart>>
  /\ UNCHANGED get_result
  /\ UNCHANGED offWant

\* api.py:253-257: the page is done and has a next link
NextPage ==
  /\ wpc = "items"
  /\ pend = <<>>
  /\ HasNext(want_count, cur)
  /\ req' = cur + 1
  /\ wpc' = "fetch"
  /\ UNCHANGED <<want_count, cacheFile, cacheNew, cache, clear_cache, refresh_cache,
                 exceptions_handled, cur, pend, wexc, loaded, processed, lastItemPage,
                 failPage, fetchedFrom, called, natural, natAtStart>>
  /\ UNCHANGED get_result
  /\ UNCHANGED offWant

\* api.py:258-259, wantlist.py:70-71: the last page is done, the loop of get ends
LastPageDone ==
  /\ wpc = "items"
  /\ pend = <<>>
  /\ ~HasNext(want_count, cur)
  /\ cache' = end_of_loop(cache)
  /\ wpc' = "save"
  /\ UNCHANGED <<want_count, cacheFile, cacheNew, clear_cache, refresh_cache, req,
                 exceptions_handled, cur, pend, wexc, loaded, processed, lastItemPage,
                 failPage, fetchedFrom, called, natural, natAtStart>>
  /\ UNCHANGED get_result
  /\ UNCHANGED offWant

\* api.py:243, wantlist.py:70-71: too many page failures end the generator, and
\* the loop of get ends the same way
PaginationGivesUp ==
  /\ wpc = "fetch"
  /\ exceptions_handled > TOLERATED
  /\ cache' = end_of_loop(cache)
  /\ wpc' = "save"
  /\ UNCHANGED <<want_count, cacheFile, cacheNew, clear_cache, refresh_cache, req,
                 exceptions_handled, cur, pend, wexc, loaded, processed, lastItemPage,
                 failPage, fetchedFrom, called, natural, natAtStart>>
  /\ UNCHANGED get_result
  /\ UNCHANGED offWant

\* wantlist.py:49-50: _save_cache opens the ".new" file and dumps into it
SaveOpen ==
  /\ wpc = "save"
  /\ cacheNew' = "open"
  /\ wpc' = "save_rename"
  /\ UNCHANGED <<want_count, cacheFile, cache, clear_cache, refresh_cache, req,
                 exceptions_handled, cur, pend, wexc, loaded, processed, lastItemPage,
                 failPage, fetchedFrom, called, natural, natAtStart>>
  /\ UNCHANGED get_result
  /\ UNCHANGED offWant

\* wantlist.py:51: os.rename inside the with block, the file still open
SaveRename ==
  /\ wpc = "save_rename"
  /\ cacheFile' = [exists |-> TRUE, complete |-> FALSE,
                   page |-> cache.page, wants |-> cache.wants]
  /\ cacheNew' = "absent"
  /\ natural' = FALSE
  /\ wpc' = "save_close"
  /\ UNCHANGED <<want_count, cache, clear_cache, refresh_cache, req, exceptions_handled,
                 cur, pend, wexc, loaded, processed, lastItemPage, failPage, fetchedFrom,
                 called, natAtStart>>
  /\ UNCHANGED get_result
  /\ UNCHANGED offWant

\* wantlist.py:49-51: the with block closes the file, get returns or re-raises
SaveClose ==
  /\ wpc = "save_close"
  /\ cacheFile' = [cacheFile EXCEPT !.complete = TRUE]
  /\ natural' = ~wexc
  /\ wpc' = IF wexc THEN "raised" ELSE "returned"
  /\ UNCHANGED <<want_count, cacheNew, cache, clear_cache, refresh_cache, req,
                 exceptions_handled, cur, pend, wexc, loaded, processed, lastItemPage,
                 failPage, fetchedFrom, called, natAtStart>>
  /\ get_result' = IF wexc THEN <<>> ELSE Sorted(cache.wants)
  /\ UNCHANGED offWant

\* the process dies inside get
WantKilled ==
  /\ wpc \in {"fetch", "items", "save", "save_rename", "save_close"}
  /\ wpc' = "killed"
  /\ UNCHANGED <<want_count, cacheFile, cacheNew, cache, clear_cache, refresh_cache, req,
                 exceptions_handled, cur, pend, wexc, loaded, processed, lastItemPage,
                 failPage, fetchedFrom, called, natural, natAtStart>>
  /\ UNCHANGED get_result
  /\ UNCHANGED offWant

WantNext ==
  \/ \E c \in BOOLEAN, f \in BOOLEAN : StartGet(c, f)
  \/ \E f \in BOOLEAN : StartGetUnreadable(f)
  \/ PageOk
  \/ PageFail
  \/ ItemOk
  \/ ItemRaises
  \/ Interrupted
  \/ NextPage
  \/ LastPageDone
  \/ PaginationGivesUp
  \/ SaveOpen
  \/ SaveRename
  \/ SaveClose
  \/ WantKilled

(* -------------------------- client: operations ------------------------- *)
\* attempts_remaining = 5 (api.py:201, feeds.py:43)
ATTEMPTS == 5

\* if calls_remaining < 2 (api.py:214)
LOW_WATER == 2

\* @limits(calls=1, period=1) (api.py:196, feeds.py:38): seconds
PERIOD == 1

\* sleep(10) after a failed attempt (api.py:224, feeds.py:61): seconds
BACKOFF == 10

\* sleep(10) on a low quota (api.py:215): seconds
COOLDOWN == 10

\* @limits(calls=1, ...) (api.py:196, feeds.py:38)
CALLS == 1

\* the clocks of the model count ticks, this many to the second
TicksPerSecond == 2

\* X-Discogs-Ratelimit-Remaining is one of 0..MaxQuota
MaxQuota == 3

Methods == {"api", "feed"}

\* status codes the remote answers with
Statuses == {200, 404, 429, 500}

None == [some |-> FALSE, status |-> 0, quota |-> 0]

Response(s, q) == [some |-> TRUE, status |-> s, quota |-> q]

\* a clock older than one limiter period is not told apart from one exactly that old
Horizon == PERIOD * TicksPerSecond

\* the clock a, `secs` seconds later
Slept(a, secs) == IF a + secs * TicksPerSecond > Horizon THEN Horizon
                  ELSE a + secs * TicksPerSecond

\* the clock a, one tick later
Ticked(a) == IF a + 1 > Horizon THEN Horizon ELSE a + 1

more_attempts_off_by_one(a) == a >= 0

\* while attempts_remaining > 0 (api.py:204, feeds.py:46)
more_attempts(a) == a > 0

low_quota_never(q) == FALSE

\* if calls_remaining < 2 (api.py:214)
low_quota(q) == q < LOW_WATER


is_ok_unless_429(status) == status # 429

\* if r.status_code == 200 (api.py:217, feeds.py:53)
is_ok(status) == status = 200

\* r.text of no response; the body of the response to the n-th request of an
\* invocation is written n, so that no two responses of it have the same body
NoText == 0

\* the remote has not answered this invocation
Unseen == [some |-> FALSE, status |-> 0, text |-> NoText]

NoException == [raised |-> FALSE, has_status |-> FALSE, status_code |-> 0,
                details |-> NoText]

\* api.py:226-231, feeds.py:62-66: APIException(message, r.status_code, r.text),
\* FeedException(message, r.status_code), and message alone when r is None
exhausted(m, resp, text) ==
  IF ~resp.some
  THEN [raised |-> TRUE, has_status |-> FALSE, status_code |-> 0, details |-> NoText]
  ELSE [raised |-> TRUE, has_status |-> TRUE, status_code |-> resp.status,
        details |-> IF m = "api" THEN text ELSE NoText]

(* --------------------------- client: actions --------------------------- *)
\* The process before its first remote call: each @limits decorator starts
\* its window when the module is imported (api.py:196, feeds.py:38).
CallInit ==
  /\ cpc = "idle"
  /\ method = "api"
  /\ attempts_remaining = 0
  /\ r = None
  /\ num_calls = [m \in Methods |-> 0]
  /\ age_reset = [m \in Methods |-> 0]
  /\ age_req = Horizon
  /\ requests = 0
  /\ failures = 0
  /\ backoffs = 0
  /\ successes = 0
  /\ sawOther = FALSE
  /\ sentAfterOther = FALSE
  /\ pendingLow = FALSE
  /\ sentWhilePending = FALSE
  /\ cooledOn = 0
  /\ lastGap = Horizon
  /\ lastPair = <<"none", "none">>
  /\ r_text = NoText
  /\ call_exc = NoException
  /\ last_seen = Unseen

\* a caller invokes API.call (m = "api") or Feeds.get (m = "feed")
Invoke(m) ==
  /\ cpc \in {"idle", "returned", "failed"}
  /\ cpc' = "admit"
  /\ method' = m
  /\ requests' = 0
  /\ failures' = 0
  /\ backoffs' = 0
  /\ successes' = 0
  /\ sawOther' = FALSE
  /\ sentAfterOther' = FALSE
  /\ UNCHANGED <<attempts_remaining, r, num_calls, age_reset, age_req, pendingLow,
                 sentWhilePending, cooledOn, lastGap, lastPair>>
  /\ call_exc' = NoException
  /\ last_seen' = Unseen
  /\ UNCHANGED r_text
  /\ UNCHANGED offCall

\* the calls the limiter of `method` counts once this one is added: a window
\* older than the period is begun anew first
counted == (IF age_reset[method] >= Horizon THEN 0 ELSE num_calls[method]) + 1

\* @limits(calls=1, period=1) lets the call through (api.py:196, feeds.py:38);
\* the body starts: api.py:201-203, feeds.py:43-45
Admit ==
  /\ cpc = "admit"
  /\ counted <= CALLS
  /\ num_calls' = [num_calls EXCEPT ![method] = counted]
  /\ age_reset' = IF age_reset[method] >= Horizon
                  THEN [age_reset EXCEPT ![method] = 0] ELSE age_reset
  /\ attempts_remaining' = ATTEMPTS
  /\ r' = None
  /\ cpc' = IF more_attempts(ATTEMPTS) THEN "send" ELSE "failed"
  /\ UNCHANGED <<method, age_req, requests, failures, backoffs, successes, sawOther,
                 sentAfterOther, pendingLow, sentWhilePending, cooledOn, lastGap,
                 lastPair>>
  /\ r_text' = NoText
  /\ call_exc' = IF more_attempts(ATTEMPTS) THEN call_exc ELSE exhausted(method, None, NoText)
  /\ UNCHANGED last_seen
  /\ UNCHANGED offCall

\* @limits refuses the call and @sleep_and_retry sleeps the rest of the
\* window, then calls again (api.py:195-196, feeds.py:37-38)
Throttled ==
  /\ cpc = "admit"
  /\ counted > CALLS
  /\ num_calls' = [num_calls EXCEPT ![method] = counted]
  /\ LET rest == Horizon - age_reset[method] IN
       /\ age_reset' = [m \in Methods |->
                          IF age_reset[m] + rest > Horizon THEN Horizon
                          ELSE age_reset[m] + rest]
       /\ age_req' = IF age_req + rest > Horizon THEN Horizon ELSE age_req + rest
  /\ UNCHANGED <<cpc, method, attempts_remaining, r, requests, failures, backoffs,
                 successes, sawOther, sentAfterOther, pendingLow, sentWhilePending,
                 cooledOn, lastGap, lastPair>>
  /\ UNCHANGED <<r_text, call_exc, last_seen>>
  /\ UNCHANGED offCall

\* self.client.get(...) sends the request (api.py:206, feeds.py:48)
Send ==
  /\ cpc = "send"
  /\ cpc' = "wait"
  /\ requests' = requests + 1
  /\ lastGap' = age_req
  /\ lastPair' = <<lastPair[2], method>>
  /\ age_req' = 0
  /\ sentAfterOther' = (sentAfterOther \/ sawOther)
  /\ sentWhilePending' = (sentWhilePending \/ pendingLow)
  /\ UNCHANGED <<method, attempts_remaining, r, num_calls, age_reset, failures,
                 backoffs, successes, sawOther, pendingLow, cooledOn>>
  /\ UNCHANGED <<r_text, call_exc, last_seen>>
  /\ UNCHANGED offCall

\* time passes while the request is in flight or the caller is busy
Tick ==
  /\ cpc \in {"idle", "wait", "returned", "failed"}
  /\ \/ age_req < Horizon
     \/ \E m \in Methods : age_reset[m] < Horizon
  /\ age_req' = Ticked(age_req)
  /\ age_reset' = [m \in Methods |-> Ticked(age_reset[m])]
  /\ UNCHANGED <<cpc, method, attempts_remaining, r, num_calls, requests, failures,
                 backoffs, successes, sawOther, sentAfterOther, pendingLow,
                 sentWhilePending, cooledOn, lastGap, lastPair>>
  /\ UNCHANGED <<r_text, call_exc, last_seen>>
  /\ UNCHANGED offCall

\* the remote answers an API request with status s and
\* X-Discogs-Ratelimit-Remaining: q (api.py:206-211)
RespondApi(s, q) ==
  /\ cpc = "wait"
  /\ method = "api"
  /\ r' = Response(s, q)
  /\ cpc' = "header"
  /\ sawOther' = (sawOther \/ s \notin {200, 429})
  /\ pendingLow' = (pendingLow \/ q < LOW_WATER)
  /\ cooledOn' = 0
  /\ UNCHANGED <<method, attempts_remaining, num_calls, age_reset, age_req, requests,
                 failures, backoffs, successes, sentAfterOther, sentWhilePending,
                 lastGap, lastPair>>
  /\ r_text' = requests
  /\ last_seen' = [some |-> TRUE, status |-> s, text |-> requests]
  /\ UNCHANGED call_exc
  /\ UNCHANGED offCall

\* the remote answers a feed request with status s (feeds.py:48-52); Feeds.get
\* reads no quota header
RespondFeed(s) ==
  /\ cpc = "wait"
  /\ method = "feed"
  /\ r' = Response(s, 0)
  /\ cpc' = "status"
  /\ sawOther' = (sawOther \/ s \notin {200, 429})
  /\ cooledOn' = 0
  /\ UNCHANGED <<method, attempts_remaining, num_calls, age_reset, age_req, requests,
                 failures, backoffs, successes, sentAfterOther, pendingLow,
                 sentWhilePending, lastGap, lastPair>>
  /\ r_text' = requests
  /\ last_seen' = [some |-> TRUE, status |-> s, text |-> requests]
  /\ UNCHANGED call_exc
  /\ UNCHANGED offCall

NetErrorForgets ==
  /\ cpc = "wait"
  /\ cpc' = "backoff"
  /\ failures' = failures + 1
  /\ UNCHANGED <<method, attempts_remaining, num_calls, age_reset, age_req,
                 requests, backoffs, successes, sawOther, sentAfterOther, pendingLow,
                 sentWhilePending, cooledOn, lastGap, lastPair>>
  /\ r' = None
  /\ r_text' = NoText
  /\ UNCHANGED <<call_exc, last_seen>>
  /\ UNCHANGED offCall

\* client.get raises HTTPError, which is printed (api.py:220-221, feeds.py:56-57)
NetError ==
  /\ cpc = "wait"
  /\ cpc' = "backoff"
  /\ failures' = failures + 1
  /\ UNCHANGED <<method, attempts_remaining, r, num_calls, age_reset, age_req,
                 requests, backoffs, successes, sawOther, sentAfterOther, pendingLow,
                 sentWhilePending, cooledOn, lastGap, lastPair>>
  /\ UNCHANGED <<r_text, call_exc, last_seen>>
  /\ UNCHANGED offCall

\* calls_remaining < 2: sleep(10) (api.py:213-215)
Cooldown ==
  /\ cpc = "header"
  /\ low_quota(r.quota)
  /\ age_req' = Slept(age_req, COOLDOWN)
  /\ age_reset' = [m \in Methods |-> Slept(age_reset[m], COOLDOWN)]
  /\ pendingLow' = FALSE
  /\ cooledOn' = r.status
  /\ cpc' = "status"
  /\ UNCHANGED <<method, attempts_remaining, r, num_calls, requests, failures,
                 backoffs, successes, sawOther, sentAfterOther, sentWhilePending,
                 lastGap, lastPair>>
  /\ UNCHANGED <<r_text, call_exc, last_seen>>
  /\ UNCHANGED offCall

\* calls_remaining >= 2: no sleep (api.py:213-214)
NoCooldown ==
  /\ cpc = "header"
  /\ ~low_quota(r.quota)
  /\ cpc' = "status"
  /\ UNCHANGED <<method, attempts_remaining, r, num_calls, age_reset, age_req,
                 requests, failures, backoffs, successes, sawOther, sentAfterOther,
                 pendingLow, sentWhilePending, cooledOn, lastGap, lastPair>>
  /\ UNCHANGED <<r_text, call_exc, last_seen>>
  /\ UNCHANGED offCall

\* return r.json() / parse_atom_bytes(...) (api.py:217-218, feeds.py:53-54)
Return ==
  /\ cpc = "status"
  /\ is_ok(r.status)
  /\ cpc' = "returned"
  /\ successes' = successes + 1
  /\ UNCHANGED <<method, attempts_remaining, r, num_calls, age_reset, age_req,
                 requests, failures, backoffs, sawOther, sentAfterOther, pendingLow,
                 sentWhilePending, cooledOn, lastGap, lastPair>>
  /\ UNCHANGED <<r_text, call_exc, last_seen>>
  /\ UNCHANGED offCall

\* any other status falls out of the try block (api.py:217, feeds.py:53)
NotOk ==
  /\ cpc = "status"
  /\ ~is_ok(r.status)
  /\ cpc' = "backoff"
  /\ failures' = failures + 1
  /\ UNCHANGED <<method, attempts_remaining, r, num_calls, age_reset, age_req,
                 requests, backoffs, successes, sawOther, sentAfterOther, pendingLow,
                 sentWhilePending, cooledOn, lastGap, lastPair>>
  /\ UNCHANGED <<r_text, call_exc, last_seen>>
  /\ UNCHANGED offCall

\* attempts_remaining -= 1; sleep(10); then the loop test, and past the loop
\* the raise of APIException / FeedException (api.py:223-231, feeds.py:59-66)
Backoff ==
  /\ cpc = "backoff"
  /\ attempts_remaining' = attempts_remaining - 1
  /\ age_req' = Slept(age_req, BACKOFF)
  /\ age_reset' = [m \in Methods |-> Slept(age_reset[m], BACKOFF)]
  /\ backoffs' = backoffs + 1
  /\ cpc' = IF more_attempts(attempts_remaining - 1) THEN "send" ELSE "failed"
  /\ UNCHANGED <<method, r, num_calls, requests, failures, successes, sawOther,
                 sentAfterOther, pendingLow, sentWhilePending, cooledOn, lastGap,
                 lastPair>>
  /\ call_exc' = IF more_attempts(attempts_remaining - 1) THEN call_exc
                  ELSE exhausted(method, r, r_text)
  /\ UNCHANGED <<r_text, last_seen>>
  /\ UNCHANGED offCall

CallNext ==
  \/ \E m \in Methods : Invoke(m)
  \/ Admit
  \/ Throttled
  \/ Send
  \/ Tick
  \/ \E s \in Statuses, q \in 0..MaxQuota : RespondApi(s, q)
  \/ \E s \in Statuses : RespondFeed(s)
  \/ NetError
  \/ Cooldown
  \/ NoCooldown
  \/ Return
  \/ NotOk
  \/ Backoff

(* ------------------------ paginators: operations ----------------------- *)
\* while exceptions_handled <= 1 (feeds.py:82)
FEED_TOLERATED == 1

\* the remote feed of one release holds at most this many entries
MaxEntries == 5

\* since is None
NoSince == 0

\* the failures the loop of paginator k goes on after (api.py:243, feeds.py:82)
tolerated(k) == IF k = "api" THEN TOLERATED ELSE FEED_TOLERATED

keeps_going_strict(h, k) == h < tolerated(k)

\* while exceptions_handled <= 5 / <= 1 (api.py:243, feeds.py:82)
keeps_going(h, k) == h <= tolerated(k)

next_page_skip(p) == p + 2

\* endpoint = results["pagination"]["urls"]["next"] (api.py:254);
\* params["page"] += 1 (feeds.py:106)
next_page(p) == p + 1

\* The entries of page p of a feed of n entries, each named by its timestamp
\* (1 the oldest, n the newest), in the order o the remote serves them.
FeedItems(n, o, p) ==
  LET pos == PageItems(n, p)
  IN [i \in 1..Len(pos) |-> IF o = "desc" THEN n + 1 - pos[i] ELSE pos[i]]

\* since is not None and entry.updated < since (feeds.py:93-97)
cuts(updated, s) == s # NoSince /\ updated < s

\* the entries of a page that the for loop yields before it breaks (feeds.py:92-99)
RECURSIVE yield_until(_, _)
yield_until(entries, s) ==
  IF entries = <<>> \/ cuts(Head(entries), s) THEN <<>>
  ELSE <<Head(entries)>> \o yield_until(Tail(entries), s)

(* ------------------------- paginators: actions ------------------------- *)
PageInit ==
  /\ kind = "api"
  /\ ppc = "idle"
  /\ total = 0
  /\ order = "desc"
  /\ first_page = 1
  /\ stop_after_page = 0
  /\ since = NoSince
  /\ pg_page = 1
  /\ pg_handled = 0
  /\ requested = <<>>
  /\ outcomes = <<>>
  /\ delivered = <<>>
  /\ yielded = <<>>
  /\ gaveUp = FALSE

\* paginate_api_results(endpoint, first_page=first, stop_after_page=stop) over
\* a remote collection of n items (api.py:233-242)
StartApi(n, first, stop) ==
  /\ ppc = "idle"
  /\ ppc' = "loop"
  /\ kind' = "api"
  /\ total' = n
  /\ first_page' = first
  /\ stop_after_page' = stop
  /\ pg_page' = first
  /\ pg_handled' = 0
  /\ UNCHANGED <<order, since, requested, outcomes, delivered, yielded, gaveUp>>
  /\ UNCHANGED offPage

\* paginate_feed(url, first_page=first, since=s) over a feed of n entries
\* that the remote serves in order o (feeds.py:68-81)
StartFeed(n, first, s, o) ==
  /\ ppc = "idle"
  /\ ppc' = "loop"
  /\ kind' = "feed"
  /\ total' = n
  /\ order' = o
  /\ first_page' = first
  /\ since' = s
  /\ pg_page' = first
  /\ pg_handled' = 0
  /\ UNCHANGED <<stop_after_page, requested, outcomes, delivered, yielded, gaveUp>>
  /\ UNCHANGED offPage

\* self.call(endpoint, params) / self.get(url, params) is entered
\* (api.py:245, feeds.py:84)
Request ==
  /\ ppc = "loop"
  /\ ppc' = "fetching"
  /\ requested' = Append(requested, pg_page)
  /\ UNCHANGED <<kind, total, order, first_page, stop_after_page, since, pg_page,
                 pg_handled, outcomes, delivered, yielded, gaveUp>>
  /\ UNCHANGED offPage

\* the call returns a page, which is yielded; the next link is followed
\* unless there is none or the page is stop_after_page (api.py:245-259)
ApiPage ==
  /\ ppc = "fetching"
  /\ kind = "api"
  /\ outcomes' = Append(outcomes, TRUE)
  /\ delivered' = Append(delivered, pg_page)
  /\ IF HasNext(total, pg_page)
     THEN /\ pg_page' = next_page(pg_page)
          /\ ppc' = IF pg_page = stop_after_page THEN "done" ELSE "loop"
     ELSE /\ pg_page' = pg_page
          /\ ppc' = "done"
  /\ UNCHANGED <<kind, total, order, first_page, stop_after_page, since, pg_handled,
                 requested, yielded, gaveUp>>
  /\ UNCHANGED offPage

\* get returns a feed page: an empty one ends the sequence; otherwise its
\* entries are yielded up to the first one older than since, which ends the
\* sequence too, and else the next page is asked for (feeds.py:84-106)
FeedPage ==
  /\ ppc = "fetching"
  /\ kind = "feed"
  /\ outcomes' = Append(outcomes, TRUE)
  /\ LET entries == FeedItems(total, order, pg_page)
         out == yield_until(entries, since)
     IN IF Len(entries) = 0
        THEN /\ ppc' = "done"
             /\ UNCHANGED <<pg_page, delivered, yielded>>
        ELSE /\ delivered' = Append(delivered, pg_page)
             /\ yielded' = yielded \o out
             /\ IF Len(out) < Len(entries)
                THEN ppc' = "done" /\ pg_page' = pg_page
                ELSE ppc' = "loop" /\ pg_page' = next_page(pg_page)
  /\ UNCHANGED <<kind, total, order, first_page, stop_after_page, since, pg_handled,
                 requested, gaveUp>>
  /\ UNCHANGED offPage

\* the call raises APIException / FeedException, which is reported and
\* counted; then the loop test (api.py:261-263 and 243, feeds.py:108-110 and 82)
PageFails ==
  /\ ppc = "fetching"
  /\ outcomes' = Append(outcomes, FALSE)
  /\ pg_handled' = pg_handled + 1
  /\ ppc' = IF keeps_going(pg_handled + 1, kind) THEN "loop" ELSE "done"
  /\ gaveUp' = ~keeps_going(pg_handled + 1, kind)
  /\ UNCHANGED <<kind, total, order, first_page, stop_after_page, since, pg_page,
                 requested, delivered, yielded>>
  /\ UNCHANGED offPage

PageNext ==
  \/ \E n \in 0..MaxEntries : \E first \in 1..Pages(n), stop \in 0..Pages(n) :
       StartApi(n, first, stop)
  \/ \E n \in 0..MaxEntries : \E first \in 1..Pages(n), s \in 0..n, o \in {"desc", "asc"} :
       StartFeed(n, first, s, o)
  \/ Request
  \/ ApiPage
  \/ FeedPage
  \/ PageFails

(* ---------------------------- scan: operations ------------------------- *)
\* the want-list holds releases among 1..MaxWantId
MaxWantId == 3

\* the listings feed of one release has at most this many entries
MaxPerRelease == 2

NoProgress == [exists |-> FALSE, id |-> 0]

\* main.py:158-163
load_last_release_id(f) == IF f.exists THEN f.id ELSE 0

save_next_release_id(release_id) == [exists |-> TRUE, id |-> release_id + 1]

\* main.py:166-168
save_last_release_id(release_id) == [exists |-> TRUE, id |-> release_id]

\* The JSON of a listing as far as Listing.from_json depends on it: whether
\* it has "price" and whether it has "shipping_price".
ListingShapes == [price : BOOLEAN, shipping_price : BOOLEAN]

\* api.py:121-146: o["shipping_price"]["value"] is read first and its KeyError
\* becomes a ValueError; o["price"]["value"] is read in the constructor call
from_json(o) ==
  IF ~o.shipping_price THEN "ValueError"
  ELSE IF ~o.price THEN "KeyError"
  ELSE "ok"

\* except ValueError as e (main.py:197)
caught(e) == e = "ValueError"

\* main.py:203-205: the statements after the for loop, reached when the loop
\* is exhausted and when it is left by the break of main.py:202
after_loop(id) == 0

(* ----------------------------- scan: actions --------------------------- *)
\* before the first run: no progress file, some want-list
ScanInit ==
  /\ progressFile = NoProgress
  /\ wantlist \in {Sorted(S) : S \in SUBSET (1..MaxWantId)}
  /\ spc = "idle"
  /\ minutes = 0
  /\ last_release_id = 0
  /\ wants_left = <<>>
  /\ cur_want = 0
  /\ entries_left = 0
  /\ scan_exc = "none"
  /\ loadedId = 0
  /\ scanned = <<>>
  /\ skippedIds = {}
  /\ yieldedN = 0
  /\ blockedN = 0
  /\ malformed = 0
  /\ budgetStop = FALSE

\* no scan is modelled
ScanOff ==
  /\ wantlist = <<>>
  /\ ScanInit

\* get_listings(client, console, since, minutes=m) up to the for statement
\* (main.py:171-180); a run starts after the previous one ended
ScanStart(m) ==
  /\ spc \in {"idle", "done", "raised"}
  /\ spc' = "loop"
  /\ minutes' = m
  /\ last_release_id' = load_last_release_id(progressFile)
  /\ loadedId' = load_last_release_id(progressFile)
  /\ wants_left' = wantlist
  /\ cur_want' = 0
  /\ entries_left' = 0
  /\ scan_exc' = "none"
  /\ scanned' = <<>>
  /\ skippedIds' = {}
  /\ yieldedN' = 0
  /\ blockedN' = 0
  /\ malformed' = 0
  /\ budgetStop' = FALSE
  /\ UNCHANGED <<progressFile, wantlist>>
  /\ UNCHANGED offScan

\* if want.release.id <= last_release_id: continue (main.py:181-182)
SkipWant ==
  /\ spc = "loop"
  /\ wants_left # <<>>
  /\ Head(wants_left) <= last_release_id
  /\ skippedIds' = skippedIds \cup {Head(wants_left)}
  /\ wants_left' = Tail(wants_left)
  /\ UNCHANGED <<progressFile, wantlist, spc, minutes, last_release_id, cur_want,
                 entries_left, scan_exc, loadedId, scanned, yieldedN, blockedN, malformed, budgetStop>>
  /\ UNCHANGED offScan

\* feeds.listings_for_release(want.release.id, since) has k entries (main.py:183-184)
EnterWant(k) ==
  /\ spc = "loop"
  /\ wants_left # <<>>
  /\ Head(wants_left) > last_release_id
  /\ cur_want' = Head(wants_left)
  /\ wants_left' = Tail(wants_left)
  /\ entries_left' = k
  /\ spc' = "entries"
  /\ UNCHANGED <<progressFile, wantlist, minutes, last_release_id, scan_exc, loadedId,
                 scanned, skippedIds, yieldedN, blockedN, malformed, budgetStop>>
  /\ UNCHANGED offScan

\* the seller of the entry is in BLOCKED_SELLERS (main.py:185-188)
ListingBlocked ==
  /\ spc = "entries"
  /\ entries_left > 0
  /\ entries_left' = entries_left - 1
  /\ blockedN' = blockedN + 1
  /\ UNCHANGED <<progressFile, wantlist, spc, minutes, last_release_id, wants_left,
                 cur_want, scan_exc, loadedId, scanned, skippedIds, yieldedN, malformed,
                 budgetStop>>
  /\ UNCHANGED offScan

\* api.fetch_listing gets the JSON o of the listing and builds the Listing;
\* meets tells what meets_criteria answers (main.py:189-198)
ListingFetched(o, meets) ==
  /\ spc = "entries"
  /\ entries_left > 0
  /\ LET res == from_json(o) IN
       IF res = "ok" \/ caught(res)
       THEN /\ entries_left' = entries_left - 1
            /\ yieldedN' = IF res = "ok" /\ meets THEN yieldedN + 1 ELSE yieldedN
            /\ malformed' = IF res = "ok" THEN malformed ELSE malformed + 1
            /\ UNCHANGED <<spc, scan_exc, blockedN>>
       ELSE /\ scan_exc' = res
            /\ spc' = "finally"
            /\ UNCHANGED <<entries_left, yieldedN, blockedN, malformed>>
  /\ UNCHANGED <<progressFile, wantlist, minutes, last_release_id, wants_left, cur_want,
                 loadedId, scanned, skippedIds, budgetStop>>
  /\ UNCHANGED offScan

\* api.fetch_listing raises the APIException of API.call (api.py:279-282,
\* 226-231; main.py:190, 197)
ListingFetchFails ==
  /\ spc = "entries"
  /\ entries_left > 0
  /\ IF caught("APIException")
     THEN /\ entries_left' = entries_left - 1
          /\ UNCHANGED <<spc, scan_exc>>
     ELSE /\ scan_exc' = "APIException"
          /\ spc' = "finally"
          /\ UNCHANGED entries_left
  /\ UNCHANGED <<progressFile, wantlist, minutes, last_release_id, wants_left, cur_want,
                 loadedId, scanned, skippedIds, yieldedN, blockedN, malformed, budgetStop>>
  /\ UNCHANGED offScan

\* KeyboardInterrupt, or an exception thrown by the consumer of the
\* generator, while a release is being processed
ScanInterrupted ==
  /\ spc = "entries"
  /\ scan_exc' = "KeyboardInterrupt"
  /\ spc' = "finally"
  /\ UNCHANGED <<progressFile, wantlist, minutes, last_release_id, wants_left, cur_want,
                 entries_left, loadedId, scanned, skippedIds, yieldedN, blockedN, malformed,
                 budgetStop>>
  /\ UNCHANGED offScan

\* the feed of the release is exhausted: last_release_id = want.release.id
\* (main.py:199)
ReleaseDone ==
  /\ spc = "entries"
  /\ entries_left = 0
  /\ last_release_id' = cur_want
  /\ scanned' = Append(scanned, cur_want)
  /\ spc' = "budget"
  /\ UNCHANGED <<progressFile, wantlist, minutes, wants_left, cur_want, entries_left,
                 scan_exc, loadedId, skippedIds, yieldedN, blockedN, malformed, budgetStop>>
  /\ UNCHANGED offScan

\* minutes and (elapsed / 60 > minutes): break (main.py:200-202)
BudgetBreak ==
  /\ spc = "budget"
  /\ minutes # 0
  /\ budgetStop' = TRUE
  /\ spc' = "after"
  /\ UNCHANGED <<progressFile, wantlist, minutes, last_release_id, wants_left, cur_want,
                 entries_left, scan_exc, loadedId, scanned, skippedIds, yieldedN, blockedN, malformed>>
  /\ UNCHANGED offScan

\* no budget, or not yet spent (main.py:200-201)
BudgetLeft ==
  /\ spc = "budget"
  /\ spc' = "loop"
  /\ UNCHANGED <<progressFile, wantlist, minutes, last_release_id, wants_left, cur_want,
                 entries_left, scan_exc, loadedId, scanned, skippedIds, yieldedN, blockedN, malformed,
                 budgetStop>>
  /\ UNCHANGED offScan

\* the for loop of main.py:180 is exhausted
LoopExhausted ==
  /\ spc = "loop"
  /\ wants_left = <<>>
  /\ spc' = "after"
  /\ UNCHANGED <<progressFile, wantlist, minutes, last_release_id, wants_left, cur_want,
                 entries_left, scan_exc, loadedId, scanned, skippedIds, yieldedN, blockedN, malformed,
                 budgetStop>>
  /\ UNCHANGED offScan

\* main.py:203-205
AfterLoop ==
  /\ spc = "after"
  /\ last_release_id' = after_loop(last_release_id)
  /\ spc' = "finally"
  /\ UNCHANGED <<progressFile, wantlist, minutes, wants_left, cur_want, entries_left, scan_exc,
                 loadedId, scanned, skippedIds, yieldedN, blockedN, malformed, budgetStop>>
  /\ UNCHANGED offScan

\* finally: save_last_release_id(last_release_id) (main.py:206-208)
ScanFinally ==
  /\ spc = "finally"
  /\ progressFile' = save_last_release_id(last_release_id)
  /\ spc' = IF scan_exc = "none" THEN "done" ELSE "raised"
  /\ UNCHANGED <<wantlist, minutes, last_release_id, wants_left, cur_want, entries_left,
                 scan_exc, loadedId, scanned, skippedIds, yieldedN, blockedN, malformed, budgetStop>>
  /\ UNCHANGED offScan

ScanNext ==
  \/ \E m \in 0..1 : ScanStart(m)
  \/ SkipWant
  \/ \E k \in 0..MaxPerRelease : EnterWant(k)
  \/ ListingBlocked
  \/ \E o \in ListingShapes, meets \in BOOLEAN : ListingFetched(o, meets)
  \/ ListingFetchFails
  \/ ScanInterrupted
  \/ ReleaseDone
  \/ BudgetBreak
  \/ BudgetLeft
  \/ LoopExhausted
  \/ AfterLoop
  \/ ScanFinally

\* before a series of runs: some want-list, and the progress file as any
\* earlier run may have left it
BudgetedInit ==
  /\ progressFile \in {NoProgress} \cup {save_last_release_id(id) : id \in 0..MaxWantId}
  /\ wantlist \in {Sorted(S) : S \in SUBSET (1..MaxWantId)}
  /\ spc = "idle"
  /\ minutes = 0
  /\ last_release_id = 0
  /\ wants_left = <<>>
  /\ cur_want = 0
  /\ entries_left = 0
  /\ scan_exc = "none"
  /\ loadedId = 0
  /\ scanned = <<>>
  /\ skippedIds = {}
  /\ yieldedN = 0
  /\ blockedN = 0
  /\ malformed = 0
  /\ budgetStop = FALSE

\* the steps of runs started with minutes set (main.py:171-208) in which no
\* exception leaves get_listings
BudgetedNext ==
  \/ ScanStart(1)
  \/ SkipWant
  \/ \E k \in 0..MaxPerRelease : EnterWant(k)
  \/ ListingBlocked
  \/ \E meets \in BOOLEAN : ListingFetched([price |-> TRUE, shipping_price |-> TRUE], meets)
  \/ ReleaseDone
  \/ BudgetBreak
  \/ BudgetLeft
  \/ LoopExhausted
  \/ AfterLoop
  \/ ScanFinally

(* ---------------------------- load: operations ------------------------- *)
\* the cursors a stored cache can hold
MaxStoredPage == 3

\* the releases a stored cache can hold are 1..MaxStoredWant
MaxStoredWant == 2

\* The states CACHE_FILENAME can be found in: absent, written whole, or cut
\* short (_save_cache renames the file before it is closed, wantlist.py:48-51).
CacheFiles ==
  {NoCacheFile} \cup [exists : {TRUE}, complete : BOOLEAN, page : 1..MaxStoredPage,
                      wants : SUBSET (1..MaxStoredWant)]

\* The states PROGRESS_FILENAME can be found in: absent, written whole, or cut
\* short (save_last_release_id writes it in place, main.py:166-168).
ProgressFiles ==
  {[exists |-> FALSE, complete |-> FALSE, id |-> 0]}
    \cup [exists : {TRUE}, complete : BOOLEAN, id : 0..MaxWantId]

\* open(..., "rb") and the unpickling of what is there (wantlist.py:42-43,
\* main.py:160-161): the exception raised, "ok" if none
read_pickle(f) ==
  IF ~f.exists THEN "FileNotFoundError"
  ELSE IF ~f.complete THEN "EOFError"
  ELSE "ok"

load_handles_nothing(e) == FALSE

\* except FileNotFoundError (wantlist.py:44, main.py:162)
load_handles(e) == e = "FileNotFoundError"

(* ----------------------------- load: actions --------------------------- *)
LoadInit ==
  /\ ld_pc = "progress"
  /\ ld_cacheFile \in CacheFiles
  /\ ld_progressFile \in ProgressFiles
  /\ ld_id = 0
  /\ ld_cache = Cache(1, {})
  /\ ld_exc = "none"

\* no start-up is modelled
LoadOff ==
  /\ ld_cacheFile = NoCacheFile
  /\ ld_progressFile = [exists |-> FALSE, complete |-> FALSE, id |-> 0]
  /\ LoadInit

\* last_release_id = load_last_release_id() (main.py:176, 158-163)
LoadProgress ==
  /\ ld_pc = "progress"
  /\ LET e == read_pickle(ld_progressFile) IN
       IF e = "ok" \/ load_handles(e)
       THEN /\ ld_id' = load_last_release_id(ld_progressFile)
            /\ ld_pc' = "cache"
            /\ UNCHANGED ld_exc
       ELSE /\ ld_exc' = e
            /\ ld_pc' = "raised"
            /\ UNCHANGED ld_id
  /\ UNCHANGED <<ld_cacheFile, ld_progressFile, ld_cache>>
  /\ UNCHANGED offLoad

\* cache = _load_cache() in wantlist.get (main.py:180, wantlist.py:59, 40-45)
LoadCache ==
  /\ ld_pc = "cache"
  /\ LET e == read_pickle(ld_cacheFile) IN
       IF e = "ok" \/ load_handles(e)
       THEN /\ ld_cache' = _load_cache(ld_cacheFile)
            /\ ld_pc' = "loaded"
            /\ UNCHANGED ld_exc
       ELSE /\ ld_exc' = e
            /\ ld_pc' = "raised"
            /\ UNCHANGED ld_cache
  /\ UNCHANGED <<ld_cacheFile, ld_progressFile, ld_id>>
  /\ UNCHANGED offLoad

LoadNext ==
  \/ LoadProgress
  \/ LoadCache

(* --------------------------- pricing: operations ----------------------- *)
\* STANDARD_SHIPPING: float = 5.00 (config.py:22), in cents like every amount
STANDARD_SHIPPING == 500

\* listing prices are 0..MaxPrice whole units plus some cents
MaxPrice == 22

\* shipping prices are 0..MaxShipping whole units
MaxShipping == 6

\* suggested prices are 1..MaxSuggestion whole units
MaxSuggestion == 30

\* n whole currency units, in cents
Units(n) == n * 100

\* the cents a listing price ends in
PriceCents == {0, 90}

\* price_suggestions has no entry for the condition of the listing
NoSuggestion == 0

\* What Python's round(num / den) can return for den # 0: the nearest
\* integer; when num / den lies exactly halfway between two integers the
\* float quotient may fall on either side, so either of them.
round(num, den) ==
  LET n == IF den < 0 THEN 0 - num ELSE num
      d == IF den < 0 THEN 0 - den ELSE den
      q == n \div d
      rest == n - q * d
  IN IF 2 * rest < d THEN {q}
     ELSE IF 2 * rest > d THEN {q + 1}
     ELSE {q, q + 1}

get_adjusted_price_no_credit(price, shipping) == price + shipping

\* api.py:148-149
get_adjusted_price(price, shipping) == (price + shipping) - STANDARD_SHIPPING

\* api.py:151-156
get_suggested_price(price, shipping, suggestion) ==
  IF suggestion = NoSuggestion THEN get_adjusted_price(price, shipping)
  ELSE suggestion

\* api.py:161: the division raises ZeroDivisionError on a suggested price of 0
discount_raises(price, shipping, suggestion) ==
  get_suggested_price(price, shipping, suggestion) = 0

\* api.py:158-161: the values get_discount can return
get_discount(price, shipping, suggestion) ==
  LET adjusted_price == get_adjusted_price(price, shipping)
      suggested_price == get_suggested_price(price, shipping, suggestion)
  IN round((suggested_price - adjusted_price) * 100, suggested_price)

(* ---------------------------- pricing: actions ------------------------- *)
\* a listing as Listing.from_json built it (api.py:121-146)
PriceInit ==
  /\ pr_pc = "listed"
  /\ pr_price \in {Units(n) + c : n \in 0..MaxPrice, c \in PriceCents}
  /\ pr_shipping \in {Units(n) : n \in 0..MaxShipping}
  /\ pr_suggestion \in {NoSuggestion} \cup {Units(n) : n \in 1..MaxSuggestion}
  /\ pr_adjusted = 0
  /\ pr_reference = 0
  /\ pr_discount = 0

\* no listing is priced
PriceOff ==
  /\ pr_price = 0
  /\ pr_shipping = 0
  /\ pr_suggestion = NoSuggestion
  /\ PriceInit

\* listing.get_discount() returns (api.py:158-161; called by main.py:72)
Discount ==
  /\ pr_pc = "listed"
  /\ ~discount_raises(pr_price, pr_shipping, pr_suggestion)
  /\ pr_adjusted' = get_adjusted_price(pr_price, pr_shipping)
  /\ pr_reference' = get_suggested_price(pr_price, pr_shipping, pr_suggestion)
  /\ pr_discount' \in get_discount(pr_price, pr_shipping, pr_suggestion)
  /\ pr_pc' = "priced"
  /\ UNCHANGED <<pr_price, pr_shipping, pr_suggestion>>
  /\ UNCHANGED offPrice

\* listing.get_discount() raises ZeroDivisionError (api.py:161)
DiscountRaises ==
  /\ pr_pc = "listed"
  /\ discount_raises(pr_price, pr_shipping, pr_suggestion)
  /\ pr_adjusted' = get_adjusted_price(pr_price, pr_shipping)
  /\ pr_reference' = get_suggested_price(pr_price, pr_shipping, pr_suggestion)
  /\ pr_pc' = "raised"
  /\ UNCHANGED <<pr_price, pr_shipping, pr_suggestion, pr_discount>>
  /\ UNCHANGED offPrice

PriceNext ==
  \/ Discount
  \/ DiscountRaises

(* ----------------------- legacy evaluator: operations ------------------ *)
\* ALLOW_VG["minimum_seller_rating"] (deals.py:365), a configured value
MINIMUM_SELLER_RATING == 1

\* ALLOW_VG["minimum_age"] (deals.py:368), a configured value
MINIMUM_AGE == 2

\* seller ratings are 0..MaxRating
MaxRating == 2

\* release years are 1..ThisYear, and ThisYear is date.today().year
ThisYear == 4

\* price and shipping values are 0..MaxValue
MaxValue == 2

\* Python's None where a number is expected
NoValue == -1

\* CONDITIONS["VG+"] (deals.py:364) and two other grades
Conditions == {"Very Good Plus (VG+)", "Near Mint (NM or M-)", "Mint (M)"}

\* genres: one of ALLOW_VG["genres"] (deals.py:369) and one that is not
Genres == {"allowed", "other"}

ALLOW_VG_genres == {"allowed"}

\* deals.py:143-149: "price and shipping" is false for None and for 0
get_total_price(price, shipping) ==
  IF price # NoValue /\ price # 0 /\ shipping # NoValue /\ shipping # 0
  THEN price + shipping
  ELSE NoValue

\* deals.py:205-208: Discogs API uses 0 for unknown year
get_release_year(year) == IF year = 0 THEN NoValue ELSE year

release_age_unknown_is_new(release_year) ==
  IF release_year = NoValue THEN 0 ELSE ThisYear - release_year

\* deals.py:444-448
release_age_of(release_year) ==
  IF release_year = NoValue THEN MINIMUM_AGE ELSE ThisYear - release_year

meets_criteria_ignores_blocklist(blocked, price, condition, release_age, genres, rating) ==
  IF price = NoValue THEN FALSE
  ELSE IF condition = "Very Good Plus (VG+)"
          /\ (\/ rating < MINIMUM_SELLER_RATING
              \/ release_age < MINIMUM_AGE /\ genres \cap ALLOW_VG_genres = {})
       THEN FALSE
       ELSE TRUE

\* deals.py:352-372
meets_criteria(blocked, price, condition, release_age, genres, rating) ==
  IF price = NoValue \/ blocked THEN FALSE
  ELSE IF condition = "Very Good Plus (VG+)"
       THEN IF rating < MINIMUM_SELLER_RATING THEN FALSE
            ELSE IF release_age < MINIMUM_AGE
                    /\ Cardinality(genres \cap ALLOW_VG_genres) = 0
                 THEN FALSE
                 ELSE TRUE
       ELSE TRUE

(* ------------------------ legacy evaluator: actions -------------------- *)
\* the listing and release JSON as call_public_api returned them (deals.py:435-438)
LegacyInit ==
  /\ lg_pc = "fetched"
  /\ lg_blocked \in BOOLEAN
  /\ lg_price_value \in {NoValue} \cup 0..MaxValue
  /\ lg_shipping_value \in {NoValue} \cup 0..MaxValue
  /\ lg_condition \in Conditions
  /\ lg_year \in 0..ThisYear
  /\ lg_genres \in SUBSET Genres
  /\ lg_rating \in 0..MaxRating
  /\ lg_price = NoValue
  /\ lg_age = 0
  /\ lg_meets = FALSE

\* no listing is evaluated
LegacyOff ==
  /\ lg_blocked = FALSE
  /\ lg_price_value = NoValue
  /\ lg_shipping_value = NoValue
  /\ lg_condition = "Mint (M)"
  /\ lg_year = 0
  /\ lg_genres = {}
  /\ lg_rating = 0
  /\ LegacyInit

\* process_listing up to the result of meets_criteria (deals.py:439-459)
ProcessListing ==
  /\ lg_pc = "fetched"
  /\ LET price == get_total_price(lg_price_value, lg_shipping_value)
         release_age == release_age_of(get_release_year(lg_year))
     IN /\ lg_price' = price
        /\ lg_age' = release_age
        /\ lg_meets' = meets_criteria(lg_blocked, price, lg_condition, release_age,
                                      lg_genres, lg_rating)
  /\ lg_pc' = "decided"
  /\ UNCHANGED <<lg_blocked, lg_price_value, lg_shipping_value, lg_condition, lg_year,
                 lg_genres, lg_rating>>
  /\ UNCHANGED offLegacy

LegacyNext == ProcessListing

(* --------------------- legacy page loop: operations -------------------- *)
\* the remote feed has at most this many pages with entries
MaxLegacyLast == 3

\* the page numbers past this one are told apart by their parity alone
MaxLegacyPage == MaxLegacyLast + 2

\* deals.py:541: page += 1
legacy_next_page(page) == IF page <= MaxLegacyPage THEN page + 1 ELSE MaxLegacyPage

\* deals.py:547: len(feed.entries) == 0
legacy_empty(page, last) == page > last

\* deals.py:562-565: except DealException / except httpx.HTTPError call
\* handle_deal_exception / handle_http_error, which print and return
\* (deals.py:80-104); the while True of deals.py:540 goes on
legacy_handled(e) == e \in {"DealException", "HTTPError"}

(* ---------------------- legacy page loop: actions ---------------------- *)
\* get_deals has reached page = 0 (deals.py:539) for one condition and currency
LegacyPagesInit ==
  /\ lp_pc = "loop"
  /\ lp_page = 0
  /\ lp_last \in 0..MaxLegacyLast
  /\ lp_remote = "up"
  /\ lp_yielded = {}
  /\ lp_lost = {}

\* no legacy page loop is modelled
LegacyPagesOff ==
  /\ lp_last = 0
  /\ LegacyPagesInit

\* deals.py:541-560: the request for the next page succeeds; an empty feed
\* breaks the loop, any other has its entries processed
LegacyPageOk ==
  /\ lp_pc = "loop"
  /\ lp_remote = "up"
  /\ LET p == legacy_next_page(lp_page) IN
       /\ lp_page' = p
       /\ IF legacy_empty(p, lp_last)
          THEN /\ lp_pc' = "done"
               /\ UNCHANGED lp_yielded
          ELSE /\ lp_yielded' = lp_yielded \cup {p}
               /\ UNCHANGED lp_pc
  /\ UNCHANGED <<lp_last, lp_remote, lp_lost>>
  /\ UNCHANGED offLegacyPages

\* deals.py:541-546, 562-565: get raises e (a non-200 status makes it a
\* DealException, deals.py:135-136; a network failure an httpx.HTTPError)
LegacyPageFails(e) ==
  /\ lp_pc = "loop"
  /\ LET p == legacy_next_page(lp_page) IN
       /\ lp_page' = p
       /\ lp_lost' = lp_lost \cup {p}
  /\ lp_pc' = IF legacy_handled(e) THEN "loop" ELSE "done"
  /\ UNCHANGED <<lp_last, lp_remote, lp_yielded>>
  /\ UNCHANGED offLegacyPages

\* the remote goes down for good
LegacyRemoteDown ==
  /\ lp_pc = "loop"
  /\ lp_remote = "up"
  /\ lp_remote' = "down"
  /\ UNCHANGED <<lp_pc, lp_page, lp_last, lp_yielded, lp_lost>>
  /\ UNCHANGED offLegacyPages

LegacyPagesNext ==
  \/ LegacyPageOk
  \/ \E e \in {"DealException", "HTTPError"} : LegacyPageFails(e)
  \/ LegacyRemoteDown

\* main() alone: no wantlist.get is in progress
InitFeed == FeedInit /\ WantOff /\ CallInit /\ PageInit /\ ScanOff /\ LoadOff /\ PriceOff /\ LegacyOff /\ LegacyPagesOff

SpecFeed == InitFeed /\ [][FeedNext]_vars

\* wantlist.get alone, over every want-list of up to MaxRelease releases
InitWant == WantInit /\ FeedInit /\ CallInit /\ PageInit /\ ScanOff /\ LoadOff /\ PriceOff /\ LegacyOff /\ LegacyPagesOff

SpecWant == InitWant /\ [][WantNext]_vars

\* the remote client alone: any sequence of API.call and Feeds.get invocations
InitCall == CallInit /\ FeedInit /\ WantOff /\ PageInit /\ ScanOff /\ LoadOff /\ PriceOff /\ LegacyOff /\ LegacyPagesOff

SpecCall == InitCall /\ [][CallNext]_vars

\* the paginators alone, over every remote collection of up to MaxEntries items
InitPage == PageInit /\ FeedInit /\ WantOff /\ CallInit /\ ScanOff /\ LoadOff /\ PriceOff /\ LegacyOff /\ LegacyPagesOff

SpecPage == InitPage /\ [][PageNext]_vars

\* get_listings alone, run after run over one want-list
InitScan == ScanInit /\ FeedInit /\ WantOff /\ CallInit /\ PageInit /\ LoadOff /\ PriceOff /\ LegacyOff /\ LegacyPagesOff

SpecScan == InitScan /\ [][ScanNext]_vars

\* get_listings run after run with a time budget, over well-formed listings
\* and without interruptions; every step that can be taken is taken in the end
InitBudgeted == BudgetedInit /\ FeedInit /\ WantOff /\ CallInit /\ PageInit /\ LoadOff /\ PriceOff /\ LegacyOff /\ LegacyPagesOff

SpecBudgeted == InitBudgeted /\ [][BudgetedNext]_vars /\ WF_vars(BudgetedNext)

\* the start-up reads of both persisted stores, over every state they can be found in
InitLoad == LoadInit /\ FeedInit /\ WantOff /\ CallInit /\ PageInit /\ ScanOff /\ PriceOff /\ LegacyOff /\ LegacyPagesOff

SpecLoad == InitLoad /\ [][LoadNext]_vars

\* the pricing methods of Listing, over every price, shipping price and suggestion
InitPrice == PriceInit /\ FeedInit /\ WantOff /\ CallInit /\ PageInit /\ ScanOff /\ LoadOff /\ LegacyOff /\ LegacyPagesOff

SpecPrice == InitPrice /\ [][PriceNext]_vars

\* the legacy evaluator of deals.py, over every listing
InitLegacy == LegacyInit /\ FeedInit /\ WantOff /\ CallInit /\ PageInit /\ ScanOff /\ LoadOff /\ PriceOff /\ LegacyPagesOff

SpecLegacy == InitLegacy /\ [][LegacyNext]_vars

\* the page loop of the legacy get_deals, with every request scheduled
InitLegacyPages == LegacyPagesInit /\ FeedInit /\ WantOff /\ CallInit /\ PageInit /\ ScanOff /\ LoadOff /\ PriceOff /\ LegacyOff

SpecLegacyPages == InitLegacyPages /\ [][LegacyPagesNext]_vars /\ WF_vars(LegacyPagesNext)

(* ------------------------- feed: the claims ---------------------------- *)
Min(a, b) == IF a < b THEN a ELSE b

Take(s, n) == SubSeq(s, 1, Min(n, Len(s)))

RECURSIVE FirstOccurrences(_, _)
\* the listings of a stream without those whose id came earlier in it
FirstOccurrences(stream, seen) ==
  IF stream = <<>> THEN <<>>
  ELSE IF Head(stream).id \in seen
       THEN FirstOccurrences(Tail(stream), seen)
       ELSE <<Head(stream)>> \o FirstOccurrences(Tail(stream), seen \cup {Head(stream).id})

\* the entries the claims expect for the new items of a stream
ExpectedNew(stream) ==
  LET d == FirstOccurrences(stream, {})
  IN Take([i \in 1..Len(d) |-> [id |-> ItemUrl(d[i].id), sum |-> d[i].sum]],
          MAX_FEED_ENTRIES)

RECURSIVE ExpectedCarry(_, _, _)
\* the old entries in their order, skipping ids already present, while room is left
ExpectedCarry(old, present, room) ==
  IF old = <<>> \/ room <= 0 THEN <<>>
  ELSE IF Head(old).id \in present
       THEN ExpectedCarry(Tail(old), present, room)
       ELSE <<Head(old)>> \o ExpectedCarry(Tail(old), present \cup {Head(old).id}, room - 1)

ExpectedMerge(stream, f) ==
  LET new == ExpectedNew(stream)
  IN new \o ExpectedCarry(f.entries, {new[i].id : i \in 1..Len(new)},
                          MAX_FEED_ENTRIES - Len(new))

\* a run with a feed path has ended after writing the feed
Wrote == fpc = "done" /\ fg_on

\* C1: the feed at the canonical path never holds more than MAX_FEED_ENTRIES
\* entries, whatever was accepted, whatever the previous feed was and however
\* the scan ended.
C1_FeedWithinCap == Len(feedFile.entries) <= MAX_FEED_ENTRIES

\* C1 witness: a written feed that is full while more candidates were at hand.
C1_CapBites ==
  /\ Wrote
  /\ Len(feedFile.entries) = MAX_FEED_ENTRIES
  /\ Len(ExpectedNew(accepted)) + Len(feed.entries) > MAX_FEED_ENTRIES

\* C2: entry ids are unique within every written feed.
C2_UniqueIds ==
  \A i, j \in 1..Len(feedFile.entries) :
    i # j => feedFile.entries[i].id # feedFile.entries[j].id

\* C3: the written feed is the distinct new items in the order received, cut at
\* the capacity, followed by the previous entries in their order, skipping the
\* ids already present, up to the capacity.
C3_MergedFeed == Wrote => feedFile.entries = ExpectedMerge(accepted, feed)

\* C4: merging a stream against the feed that merging the same stream produced
\* leaves the sequence of entry ids as it was.
C4_Idempotent ==
  (Wrote /\ replaying /\ todo = <<>> /\ ~raised)
    => Ids(feedFile.entries) = Ids(feed.entries)

\* the canonical file is what the run found at its start
OldFeedIntact ==
  /\ feedFile.exists = feed.present
  /\ feedFile.entries = feed.entries
  /\ feedFile.exists => feedFile.complete

\* the canonical file is the whole of the feed this run built
NewFeedComplete ==
  /\ fpc = "done"
  /\ feedFile = [exists |-> TRUE, complete |-> TRUE, entries |-> fg]

\* C5: at every step of a run, a kill or failed write included, the canonical
\* path holds the complete previous feed or the complete new feed, never a part.
C5_AtomicWrite ==
  /\ feedFile.exists => feedFile.complete
  /\ (fg_on /\ fpc # "idle") => (OldFeedIntact \/ NewFeedComplete)

\* C5 witness: the process died in the middle of the serialization while a
\* previous feed existed.
C5_KilledMidWrite ==
  /\ fpc = "killed"
  /\ newFile = "partial"
  /\ written > 0
  /\ written < Len(fg)
  /\ feed.present

\* C6: when the distinct new items and the previous entries they do not
\* duplicate fit the capacity together, every previous entry is in the new feed
\* unchanged (read in the claim's favour: every previous entry that no new item
\* replaces).
C6_NothingLost ==
  LET newIds == {ItemUrl(accepted[i].id) : i \in 1..Len(accepted)}
      kept == {i \in 1..Len(feed.entries) : feed.entries[i].id \notin newIds}
  IN (Wrote /\ Cardinality(newIds) + Cardinality(kept) <= MAX_FEED_ENTRIES)
       => \A i \in kept : feed.entries[i] \in Range(feedFile.entries)

\* C7: when the scan is cut short after k accepted listings and a feed path is
\* set, main still goes through its finally block, and the feed it writes is
\* those k items (up to the capacity) followed by entries of the previous feed.
C7_WrittenWhenCutShort ==
  (fg_on /\ raised) =>
     \/ fpc \in {"finally", "write", "killed"}
     \/ /\ fpc = "done"
        /\ feedFile.exists /\ feedFile.complete
        /\ LET new == ExpectedNew(accepted)
               all == feedFile.entries
           IN /\ Len(all) >= Len(new)
              /\ SubSeq(all, 1, Len(new)) = new
              /\ \A i \in (Len(new) + 1)..Len(all) : all[i] \in Range(feed.entries)

\* C7 witness: a cut-short run that had accepted a listing and wrote it ahead
\* of a carried-over entry.
C7_CutShortWritten ==
  /\ Wrote /\ raised
  /\ Len(accepted) >= 1
  /\ Len(feedFile.entries) > Len(ExpectedNew(accepted))

(* ----------------------- want-list: the claims ------------------------- *)
\* get was left by an exception raised while a want of page failPage was being processed
AbortedOnPage == wpc = "raised" /\ failPage > 0

\* C8 (as amended): when the loop of get is aborted while the wants of page N
\* are being processed, the cache is saved before the exception leaves get; the
\* saved cursor is the page of the last want processed (N once a want of page N
\* was processed, otherwise the cursor the cache had before), and the saved
\* wants are those loaded plus every want processed before the failure.
C8_PersistedOnAbort ==
  AbortedOnPage =>
    /\ cacheFile.exists /\ cacheFile.complete
    /\ cacheFile.wants = loaded.wants \cup processed
    /\ cacheFile.page = IF lastItemPage > 0 THEN lastItemPage ELSE loaded.page
    /\ (processed \cap Range(PageItems(want_count, failPage)) # {})
         => cacheFile.page = failPage

\* C8 witness: the loop aborted on page 2 after a want of page 2 was processed.
C8_AbortedOnSecondPage ==
  /\ AbortedOnPage
  /\ failPage = 2
  /\ lastItemPage = 2
  /\ cacheFile.page = 2

\* C8 as stated: after an abort while the wants of page N are being processed,
\* the saved cursor is N and every want processed before it is saved.
C8_CursorIsFailingPage ==
  AbortedOnPage =>
    /\ cacheFile.exists /\ cacheFile.complete
    /\ cacheFile.page = failPage
    /\ processed \subseteq cacheFile.wants

\* get returned after its loop ran to the end
LoopCompleted == wpc = "returned" /\ fetchedFrom > 0

\* a get with neither flag, started on a cache saved by a completed loop, has returned
AfterCompleted == wpc = "returned" /\ natAtStart /\ ~refresh_cache /\ ~clear_cache

\* C9 (as amended): when the loop of get runs to its end, the saved cursor is
\* page 1; and a later get with neither flag makes no remote call, provided the
\* cache holds at least one want.
C9_ResetOnCompletion ==
  /\ LoopCompleted => (cacheFile.exists /\ cacheFile.complete /\ cacheFile.page = 1)
  /\ (AfterCompleted /\ loaded.wants # {}) => (~called /\ fetchedFrom = 0)

\* C9 witness: a get with neither flag returned on the cache a completed loop
\* over more than one page had saved.
C9_ReusedCompleteCache ==
  /\ AfterCompleted
  /\ Cardinality(loaded.wants) > PerPage
  /\ cacheFile.page = 1
  /\ ~called

\* C9 as stated: after a completed loop the saved cursor is page 1 and a later
\* get with neither flag treats the cache as complete.
C9_CompleteAfterLoop ==
  /\ LoopCompleted => (cacheFile.exists /\ cacheFile.complete /\ cacheFile.page = 1)
  /\ AfterCompleted => (~called /\ fetchedFrom = 0)

\* C10: a get with neither flag that finds a saved cursor N > 1 (left by an
\* interrupted fetch) goes on fetching from page N.
C10_ResumesAtCursor ==
  (wpc \in {"fetch", "items", "save", "returned"}
     /\ ~clear_cache /\ ~refresh_cache /\ loaded.page > 1)
    => fetchedFrom = loaded.page

(* ------------------------- client: the claims -------------------------- *)
\* the invocation in progress has ended, by a return or by a raise
Ended == cpc \in {"returned", "failed"}

\* C12: one invocation of API.call or Feeds.get sends at most 5 requests,
\* has slept the backoff once for each failed attempt whenever it sends
\* again or ends, returns on its first 200 response (every request before it
\* failed), and raises only when all 5 attempts failed.
C12_BoundedRetry ==
  /\ requests <= ATTEMPTS
  /\ successes <= 1
  /\ (cpc = "send" \/ Ended) => /\ backoffs = failures
                                /\ requests = failures + successes
  /\ cpc = "returned" => successes = 1 /\ r.some /\ r.status = 200
  /\ cpc = "failed" => successes = 0 /\ requests = ATTEMPTS

\* Feeds.get has raised FeedException after 5 failed requests and 5 sleeps
C12_GaveUpAfterFive ==
  /\ cpc = "failed"
  /\ method = "feed"
  /\ requests = ATTEMPTS
  /\ backoffs = ATTEMPTS

\* C13, as stated: after a non-200 response other than 429 the invocation
\* sends no further request.
C13_OtherStatusNotRetried == method = "api" => ~sentAfterOther

\* C13, amended: a non-200 response of any status is retried like any failed
\* attempt; an invocation that got one ends only by a later 200 response or
\* when its 5 requests are used up, and then raises with the last response.
C13_OtherStatusRetried ==
  sawOther =>
    /\ cpc = "returned" => requests >= 2 /\ r.status = 200
    /\ cpc = "failed" => requests = ATTEMPTS /\ r.some

\* API.call returned a 200 response after retrying a 404 or 500
C13_RetriedAndReturned ==
  /\ method = "api"
  /\ cpc = "returned"
  /\ sentAfterOther

\* C14: once a response to API.call advertises a quota below the low-water
\* mark, no request leaves before the cooldown has been slept, and the
\* cooldown is slept whatever the status of that response.
C14_CooldownBeforeNextRequest ==
  /\ ~sentWhilePending
  /\ (cpc = "status" /\ method = "api" /\ r.quota < LOW_WATER) => cooledOn = r.status

\* the next request is under way after a cooldown that followed a 200 response
C14_CooledWithoutRejection ==
  /\ cpc = "wait"
  /\ cooledOn = 200
  /\ lastPair[1] = "api"

\* C15, as stated: any two consecutive outbound requests, through API.call
\* or Feeds.get, are at least one limiter period apart.
C15_GlobalCadence == lastPair[1] # "none" => lastGap >= Horizon

(* ----------------------- paginators: the claims ------------------------ *)
\* the requests of the paginator that failed, by position
Failed == {i \in 1..Len(outcomes) : ~outcomes[i]}

\* the length of the run of failed requests that ends the answered requests
RECURSIVE TrailingFailures(_)
TrailingFailures(o) ==
  IF o = <<>> \/ o[Len(o)] THEN 0
  ELSE 1 + TrailingFailures(SubSeq(o, 1, Len(o) - 1))

\* C16: whatever requests fail, the pages delivered are first_page,
\* first_page + 1, ... in order, none skipped and none twice, and the request
\* after a failed request asks for the same page again.
C16_PagesInOrder ==
  /\ \A i \in 1..Len(delivered) : delivered[i] = first_page + i - 1
  /\ \A i \in 1..(Len(requested) - 1) :
        i <= Len(outcomes) =>
          requested[i + 1] = IF outcomes[i] THEN requested[i] + 1 ELSE requested[i]

\* a page was delivered, the request for the next page failed, and that page
\* was delivered by a later request
C16_RefetchedAfterFailure ==
  /\ Len(delivered) >= 2
  /\ \E i \in Failed : i > 1 /\ i < Len(outcomes) /\ outcomes[Len(outcomes)]

\* C17, as stated: the sequence ends early exactly when 5 page requests in a
\* row have failed.
C17_EndsAtFiveConsecutive ==
  ppc \in {"loop", "done"} => (gaveUp <=> TrailingFailures(outcomes) >= TOLERATED)

\* C17, amended: the sequence ends early exactly when the failed requests of
\* the whole sequence, consecutive or not, outnumber the tolerated ones: on
\* the 6th failure in paginate_api_results, on the 2nd in paginate_feed.
C17_EndsWhenFailuresExceedTolerated ==
  ppc \in {"loop", "done"} =>
    /\ gaveUp <=> Cardinality(Failed) = (IF kind = "api" THEN 6 ELSE 2)
    /\ Cardinality(Failed) <= (IF kind = "api" THEN 6 ELSE 2)
    /\ gaveUp => ppc = "done"

\* paginate_api_results gave up on failures that a delivered page separates
C17_GaveUpOnScatteredFailures ==
  /\ kind = "api"
  /\ gaveUp
  /\ TrailingFailures(outcomes) < Cardinality(Failed)

\* the entries of a feed served newest first that are newer than since
NewerThan(n, s) == [i \in 1..(n - s) |-> n + 1 - i]

\* C18: over a feed served newest first, with since the timestamp of the
\* k-th entry, paginate_feed yields exactly the entries before the k-th.
C18_YieldsBeforeKth ==
  (/\ kind = "feed"
   /\ ppc = "done"
   /\ order = "desc"
   /\ first_page = 1
   /\ since # NoSince
   /\ ~gaveUp) => yielded = NewerThan(total, since)

(* --------------------------- scan: the claims -------------------------- *)
\* C11: when a run of get_listings has stopped on the time budget with
\* releases of the want-list still unscanned, the progress file holds the id
\* of the last release the run fully processed.
C11_BudgetStopKeepsCursor ==
  (spc = "done" /\ budgetStop /\ wants_left # <<>>) =>
    /\ progressFile.exists
    /\ progressFile.id = scanned[Len(scanned)]

\* C19: no exception caused by a malformed listing (one without "price" or
\* without "shipping_price") propagates out of get_listings.
C19_MalformedListingSkipped == scan_exc \notin {"KeyError", "ValueError"}

\* C20: no remote error of api.fetch_listing that survived the retries of
\* API.call propagates out of get_listings.
C20_RemoteErrorSkipped == scan_exc # "APIException"

(* --------------------------- load: the claims -------------------------- *)
\* the file is absent or holds a whole pickle
Readable(f) == f.exists => f.complete

\* both loads were attempted, or the first one raised
StartupOver == ld_pc \in {"loaded", "raised"}

\* C21: loading a store that does not exist never fails and gives the empty
\* default: load_last_release_id returns 0, and _load_cache returns a cache
\* with no items and the cursor at page 1.
C21_MissingStoreLoadsDefault ==
  /\ (~ld_progressFile.exists /\ ld_pc # "progress") =>
       ld_id = 0 /\ (ld_pc = "raised" => ld_exc # "FileNotFoundError")
  /\ (~ld_cacheFile.exists /\ Readable(ld_progressFile) /\ StartupOver) =>
       ld_pc = "loaded" /\ ld_cache = Cache(1, {}) /\ ld_exc = "none"

\* a first run: neither file exists and both loads are done
C21_FirstRunLoaded ==
  /\ ld_pc = "loaded"
  /\ ~ld_progressFile.exists
  /\ ~ld_cacheFile.exists

\* C22: loading a cache file that cannot be unpickled is not fatal and gives
\* the empty state (no items, cursor at page 1).
C22_CorruptCacheLoadsEmpty ==
  (ld_cacheFile.exists /\ ~ld_cacheFile.complete /\ Readable(ld_progressFile)
     /\ StartupOver)
    => ld_pc = "loaded" /\ ld_cache = Cache(1, {})

(* -------------------------- pricing: the claims ------------------------ *)
Abs(x) == IF x < 0 THEN 0 - x ELSE x

\* d is an integer nearest to (reference - adjusted) / reference * 100
NearestPercent(d, adjusted, reference) ==
  2 * Abs((reference - adjusted) * 100 - d * reference) <= Abs(reference)

\* get_discount returned, and what the three methods returned obeys the formulas
PricedByFormula ==
  /\ pr_adjusted = pr_price + pr_shipping - STANDARD_SHIPPING
  /\ NearestPercent(pr_discount, pr_adjusted, pr_reference)
  /\ (pr_price = Units(20) /\ pr_shipping = Units(5) /\ pr_suggestion = Units(30)) =>
       pr_adjusted = Units(20) /\ pr_discount = 33

C24_NoSuggestionGivesZero ==
  (pr_suggestion = NoSuggestion /\ pr_pc # "listed") =>
    /\ pr_pc = "priced"
    /\ pr_reference = pr_adjusted
    /\ pr_discount = 0

(* ---------------------- legacy evaluator: the claims ------------------- *)
Lenient == lg_condition = "Very Good Plus (VG+)"

\* C25: meets_criteria returns true exactly when the price is present, the
\* seller is not blocked, and the condition is not the lenient grade or else
\* the seller rating reaches the minimum and the release is old enough or of
\* an allowed genre; a blocked seller is always rejected and every other
\* grade passes without the extra checks.
C25_MeetsCriteria ==
  lg_pc = "decided" =>
    /\ lg_meets <=>
         /\ lg_price # NoValue
         /\ ~lg_blocked
         /\ \/ ~Lenient
            \/ /\ lg_rating >= MINIMUM_SELLER_RATING
               /\ lg_age >= MINIMUM_AGE \/ lg_genres \cap ALLOW_VG_genres # {}
    /\ lg_blocked => ~lg_meets
    /\ (~Lenient /\ lg_price # NoValue /\ ~lg_blocked) => lg_meets

\* a blocked seller was rejected though every other test passes
C25_BlockedSellerRejected ==
  /\ lg_pc = "decided"
  /\ lg_blocked
  /\ ~lg_meets
  /\ lg_price # NoValue
  /\ Lenient
  /\ lg_rating >= MINIMUM_SELLER_RATING
  /\ lg_age >= MINIMUM_AGE

\* C26: a listing of the lenient grade whose release year is unknown, with a
\* price and a seller not blocked, is accepted exactly when the seller rating
\* reaches the minimum, whatever its genres.
C26_UnknownYearWaivesAge ==
  (lg_pc = "decided" /\ Lenient /\ lg_year = 0 /\ lg_price # NoValue /\ ~lg_blocked) =>
    (lg_meets <=> lg_rating >= MINIMUM_SELLER_RATING)

\* accepted with an unknown year and no allowed genre
C26_AcceptedWithoutGenre ==
  /\ lg_pc = "decided"
  /\ Lenient
  /\ lg_year = 0
  /\ lg_genres \cap ALLOW_VG_genres = {}
  /\ lg_meets

(* ------------------------- no feed path: the claim --------------------- *)
\* C27: in a run without a feed path no step reads the feed file (the parsed
\* feed stays absent and the generator stays empty) and no step creates,
\* writes or renames the feed file or its ".new" file, while the listings
\* are still scanned.
C27_NoFeedNoFile ==
  [][(~fg_on' /\ fpc' # "idle") =>
       /\ feedFile' = feedFile
       /\ newFile' = newFile
       /\ feed' = NoFeed
       /\ fg' = <<>>
       /\ written' = 0]_vars

\* a run without a feed path scanned listings to the end beside an existing feed file
C27_ScannedWithoutFeed ==
  /\ fpc = "done"
  /\ ~fg_on
  /\ accepted # <<>>
  /\ feedFile.exists
  /\ feedFile.entries # <<>>

(* ------------------------ cached want-list: the claim ------------------ *)
\* get was called without clear and without refresh on a persisted cache that holds wants
ServedFromCache ==
  /\ wpc # "idle"
  /\ ~clear_cache
  /\ ~refresh_cache
  /\ loaded.wants # {}

\* C28: when the persisted cache holds wants and neither refresh nor clear is
\* asked for, get returns at once without a remote call, the cache file still
\* holds the cursor and the wants that were loaded, and the value returned is
\* those wants in ascending order of release id.
C28_CachedGetIsLocal ==
  ServedFromCache =>
    /\ wpc = "returned"
    /\ ~called
    /\ fetchedFrom = 0
    /\ cacheFile = [exists |-> TRUE, complete |-> TRUE,
                    page |-> loaded.page, wants |-> loaded.wants]
    /\ cache = loaded
    /\ Len(get_result) = Cardinality(loaded.wants)
    /\ {get_result[i] : i \in 1..Len(get_result)} = loaded.wants
    /\ \A i \in 1..Len(get_result) - 1 : get_result[i] < get_result[i + 1]

\* get served several wants from a cache whose cursor is in mid-list
C28_ServedSeveralWants ==
  /\ ServedFromCache
  /\ wpc = "returned"
  /\ Len(get_result) >= 2
  /\ cacheFile.page > 1

(* --------------------------- scan cursor: the claim -------------------- *)
\* the releases of the want-list above the loaded cursor, in the order of the list
Due == SelectSeq(wantlist, LAMBDA id : id > loadedId)

\* the releases of the want-list the loop has passed: skipped, scanned or in hand
Passed ==
  {wantlist[i] : i \in 1..(Len(wantlist) - Len(wants_left))}

\* the id of the last release fully scanned, or the loaded cursor if there is none
LastFullyScanned == IF scanned = <<>> THEN loadedId ELSE scanned[Len(scanned)]

\* C29: the releases a run skips are exactly those it has passed whose id is
\* at most the loaded cursor, the releases it scans are the others in
\* ascending order of id, and a run that ends with an exception or an
\* interruption leaves in the progress file the id of the last release fully
\* scanned (the loaded cursor if none was), so that every release of the
\* want-list above the loaded cursor and up to the persisted one was scanned.
C29_ScanCursorSafe ==
  spc # "idle" =>
    /\ skippedIds = {id \in Passed : id <= loadedId}
    /\ Len(scanned) <= Len(Due)
    /\ scanned = SubSeq(Due, 1, Len(scanned))
    /\ \A i \in 1..Len(scanned) - 1 : scanned[i] < scanned[i + 1]
    /\ {id \in Passed : id > loadedId} \subseteq
         {scanned[i] : i \in 1..Len(scanned)} \cup {cur_want}
    /\ spc = "raised" =>
         /\ progressFile = [exists |-> TRUE, id |-> LastFullyScanned]
         /\ \A i \in 1..Len(wantlist) :
              (wantlist[i] > loadedId /\ wantlist[i] <= progressFile.id) =>
                \E j \in 1..Len(scanned) : scanned[j] = wantlist[i]

\* a run that resumed above a skipped release was interrupted after scanning
\* one release and before finishing the next
C29_InterruptedMidList ==
  /\ spc = "raised"
  /\ skippedIds # {}
  /\ Len(scanned) = 1
  /\ cur_want > scanned[1]
  /\ progressFile.id = scanned[1]

(* ------------------------ exhausted call: the claim -------------------- *)
\* C30: the APIException raised when API.call has used up its attempts
\* carries the status code and the body of the last response the remote gave
\* during the call, also when attempts after it failed at the network level,
\* and it carries no status code exactly when no attempt got a response.
C30_ErrorCarriesLastResponse ==
  (cpc = "failed" /\ method = "api") =>
    /\ call_exc.raised
    /\ call_exc.has_status <=> last_seen.some
    /\ last_seen.some => /\ call_exc.status_code = last_seen.status
                         /\ call_exc.details = last_seen.text
    /\ ~call_exc.has_status => failures = ATTEMPTS /\ ~sawOther

\* the call failed after two different responses followed by network errors
C30_ResponseThenNetworkErrors ==
  /\ cpc = "failed"
  /\ method = "api"
  /\ last_seen.some
  /\ last_seen.text = 2
  /\ last_seen.status = 500
  /\ sawOther
  /\ call_exc.details = 2

(* ------------------------ legacy total price: the claim ---------------- *)
\* C36: get_total_price returns None exactly when the price value or the
\* shipping value is absent from the listing, and otherwise their sum, so a
\* listing with a price and a shipping value of zero has a total price.
C36_TotalPriceUnlessAbsent ==
  lg_pc = "decided" =>
    IF lg_price_value = NoValue \/ lg_shipping_value = NoValue
    THEN lg_price = NoValue
    ELSE lg_price = lg_price_value + lg_shipping_value

(* ------------------------ page loops end: the claim -------------------- *)
\* C31: the page loop of the legacy get_deals ends, whether the remote comes
\* to serve a page without entries or fails every page request from some
\* point on.
C31_LegacyPageLoopEnds == <>(lp_pc = "done")

(* ---------------------- degraded completion: the claim ----------------- *)
\* the loop of get ended because the tolerated page failures were exhausted
Degraded == wpc = "returned" /\ fetchedFrom > 0 /\ exceptions_handled > TOLERATED

\* C32: when the pagination ends early because the tolerated page failures
\* were exhausted, the cursor that get saves is the last page reached (the
\* loaded cursor if no page was reached) and is not reset to page 1.
C32_CursorKeptOnDegraded ==
  Degraded =>
    /\ cacheFile.exists
    /\ cacheFile.page = IF lastItemPage > 0 THEN lastItemPage ELSE loaded.page

(* ----------------------- crash-consistent save: the claim -------------- *)
\* C33: at every step of a save, and after a crash at any of them, the file
\* wantlist.pickle holds a whole pickle (of the previous cache or of the new
\* one): the ".new" file is renamed over it only once it is written and closed.
C33_CacheFileAlwaysWhole ==
  /\ cacheFile.exists => cacheFile.complete
  /\ wpc = "save_close" => cacheNew = "absent" /\ cacheFile.complete

(* ------------------------ incremental scan: the claims ----------------- *)
\* C34: over a feed that the remote serves in the order paginate_feed asks
\* for ("listed,asc"), a paginate_feed from page 1 that is not ended by
\* failures yields every entry whose timestamp is at or after since.
C34_NoNewerEntryLost ==
  (/\ kind = "feed"
   /\ ppc = "done"
   /\ order = "asc"
   /\ first_page = 1
   /\ ~gaveUp) =>
    \A t \in 1..total :
      (since = NoSince \/ t >= since) => \E i \in 1..Len(yielded) : yielded[i] = t

\* C35: over runs of get_listings that are each cut short by the time budget
\* after at least one release was fully scanned, every release of the
\* want-list is scanned in the end.
C35_EveryReleaseScanned ==
  \A id \in 1..MaxWantId :
    <>(\/ \A i \in 1..Len(wantlist) : wantlist[i] # id
       \/ \E j \in 1..Len(scanned) : scanned[j] = id)

====
